---- MODULE Spec2Model ----
(***************************************************************************)
(* Model of the auto_search tool of deepagents.auto_search_tool:           *)
(*   create_auto_search_tool.auto_search   (auto_search_tool.py 548-717)   *)
(*   AutoSearchTool.search_and_fetch       (auto_search_tool.py 115-367)   *)
(*   AutoSearchTool._fetch_and_process     (auto_search_tool.py 369-501)   *)
(*   SmartContentExtractor                 (smart_content_extractor.py)    *)
(*   BrightDataAsyncClient                 (brightdata_client.py)          *)
(*                                                                         *)
(* A text (str) is a sequence of tokens.  The two tags of the query        *)
(* grammar are tokens of their own, so that the regular expression         *)
(* <search>(.*?)</search> becomes a search for tokens.  A dict is a record *)
(* whose DOMAIN is the set of keys the dict holds; timing fields and the   *)
(* request id (wall-clock values) are left out of every dict.              *)
(*                                                                         *)
(* One behaviour is one call of auto_search on one event loop.  A step of  *)
(* the model is what a task does between two suspension points: asyncio    *)
(* runs a task until it awaits something that is not ready.                *)
(***************************************************************************)
EXTENDS Integers, Sequences, FiniteSets, TLC

----------------------------------------------------------------------------
(* Bounds of the model *)

\* longest raw_query (in tokens) of the grammar specification
MaxRawLen == 5
\* most queries in one request of the main specification
MaxQueries == 2
\* most hits (organic and news together) the provider returns during one call
MaxHits == 2
\* largest auto_fetch_limit the tool is configured with
MaxFetchLimit == 2
\* longest query (in tokens) handed to format_parallel_search
MaxQueryLen == 2
\* most queries handed to format_parallel_search
MaxListLen == 2
\* a max_content_length (in characters) below the length of a formatted hit
SmallContentLength == 8
\* a max_content_tokens below the length of a formatted hit
SmallContentTokens == 1
\* longest body (in characters) handed to the content cap
MaxBodyLen == 14
\* largest max_content_length of the content cap on its own
MaxCapLength == 6
\* largest max_content_tokens of the content cap on its own
MaxCapTokens == 2
\* most extraction requests for the URLs of one host
MaxRequests == 4
\* most queries of a request that runs against the clock
MaxClockQueries == 3

----------------------------------------------------------------------------
(* Texts *)

OPEN == "<search>"
CLOSE == "</search>"
PIPE == "|"
SPACE == " "

\* the tokens a raw_query is written with
Alphabet == {OPEN, CLOSE, PIPE, SPACE, "a", "b"}

\* Python's None, where a dict holds it as a value
None == <<"None">>

RECURSIVE SeqsUpTo(_, _)
\* the sequences over S of length at most n
SeqsUpTo(S, n) ==
    IF n = 0 THEN {<<>>}
    ELSE LET shorter == SeqsUpTo(S, n - 1)
         IN shorter \cup {Append(s, x) : s \in {t \in shorter : Len(t) = n - 1}, x \in S}

RECURSIVE lstrip(_)
lstrip(s) == IF s # <<>> /\ Head(s) = SPACE THEN lstrip(Tail(s)) ELSE s

RECURSIVE rstrip(_)
rstrip(s) ==
    IF s # <<>> /\ s[Len(s)] = SPACE THEN rstrip(SubSeq(s, 1, Len(s) - 1)) ELSE s

\* str.strip()
strip(s) == rstrip(lstrip(s))

\* x in s, for a one-token x
Contains(s, x) == \E k \in 1..Len(s) : s[k] = x

\* the least index k >= from with s[k] = x, or 0
FirstIndex(s, x, from) ==
    IF \E k \in from..Len(s) : s[k] = x
    THEN CHOOSE k \in from..Len(s) : s[k] = x /\ \A m \in from..(k - 1) : s[m] # x
    ELSE 0

RECURSIVE split(_, _)
\* str.split(sep): the pieces between the separators, empty pieces included
split(s, sep) ==
    LET k == FirstIndex(s, sep, 1)
    IN IF k = 0 THEN <<s>>
       ELSE <<SubSeq(s, 1, k - 1)>> \o split(SubSeq(s, k + 1, Len(s)), sep)

RECURSIVE SelectNonEmptyStripped(_)
\* [q.strip() for q in pieces if q.strip()]
SelectNonEmptyStripped(pieces) ==
    IF pieces = <<>> THEN <<>>
    ELSE LET q == strip(Head(pieces))
         IN (IF q # <<>> THEN <<q>> ELSE <<>>) \o SelectNonEmptyStripped(Tail(pieces))

----------------------------------------------------------------------------
(* The query grammar of auto_search *)

\* re.search(r'<search>(.*?)</search>', query): the text of group(1) in a
\* one-element sequence, or <<>> when the pattern does not match.  The
\* leftmost match starts at the first opening tag that a closing tag
\* follows; the lazy group ends at the first closing tag after it.
search_match(query) ==
    LET i == FirstIndex(query, OPEN, 1)
        j == IF i = 0 THEN 0 ELSE FirstIndex(query, CLOSE, i + 1)
    IN IF i = 0 \/ j = 0 THEN <<>> ELSE <<SubSeq(query, i + 1, j - 1)>>

\* a parse that does not split at the pipes
search_tags_unsplit(query) ==
    LET m == search_match(query)
    IN IF m # <<>> THEN <<strip(m[1])>> ELSE <<query>>

\* search_tags, as auto_search computes it from the query
search_tags_of(query) ==
    LET m == search_match(query)
    IN IF m # <<>>
       THEN LET search_content == strip(m[1])
            IN IF Contains(search_content, PIPE)
               THEN SelectNonEmptyStripped(split(search_content, PIPE))
               ELSE <<search_content>>
       ELSE <<query>>

----------------------------------------------------------------------------
(* search_parser *)

RECURSIVE search_findall(_)
\* re.findall(r'<search>(.*?)</search>', text, re.DOTALL): the groups of
\* the matches, left to right, each match starting after the one before
search_findall(text) ==
    LET i == FirstIndex(text, OPEN, 1)
        j == IF i = 0 THEN 0 ELSE FirstIndex(text, CLOSE, i + 1)
    IN IF i = 0 \/ j = 0 THEN <<>>
       ELSE <<SubSeq(text, i + 1, j - 1)>>
            \o search_findall(SubSeq(text, j + 1, Len(text)))

\* parse_search_queries
parse_search_queries(query) ==
    LET search_matches == search_findall(query)
    IN IF search_matches # <<>> THEN SelectNonEmptyStripped(search_matches)
       ELSE IF Contains(query, PIPE) THEN SelectNonEmptyStripped(split(query, PIPE))
       ELSE <<strip(query)>>

RECURSIVE JoinTagged(_)
\* ''.join([f'<search>{q}</search>' for q in queries])
JoinTagged(queries) ==
    IF queries = <<>> THEN <<>>
    ELSE <<OPEN>> \o Head(queries) \o <<CLOSE>> \o JoinTagged(Tail(queries))

\* format_parallel_search
format_parallel_search(queries) ==
    IF Len(queries) = 1 THEN queries[1] ELSE JoinTagged(queries)

----------------------------------------------------------------------------
(* Dicts *)

\* d.get(k, default)
Get(d, k, default) == IF k \in DOMAIN d THEN d[k] ELSE default

\* {**a, **b}
Merge(a, b) ==
    [k \in (DOMAIN a) \cup (DOMAIN b) |-> IF k \in DOMAIN b THEN b[k] ELSE a[k]]

\* an exception object, as gather(return_exceptions=True) hands it over
Exc(type, message) == [exception |-> type, message |-> message]

IsException(r) == "exception" \in DOMAIN r

----------------------------------------------------------------------------
(* The environment: the SERP provider and the web *)

\* position k as a token of a URL
IndexToken(k) == <<"1", "2", "3", "4", "5", "6", "7", "8", "9">>[k]

\* the URL the provider lists at place k of the organic ("o") or news ("n")
\* block of its answer to query q
UrlOf(q, block, k) == <<"http:", block>> \o q \o <<IndexToken(k)>>

\* the text of the page behind a URL
PageOf(url) == <<"page">> \o url

\* the items the provider may list at place k: a whole item and, in the
\* organic block, an item with no link and an item with a link alone
RawItemsAt(q, block, k) ==
    {[link |-> UrlOf(q, block, k), title |-> <<"t">>, description |-> <<"s">>]}
    \cup
    (IF block = "o"
     THEN {[title |-> <<"t">>, description |-> <<"s">>], [link |-> UrlOf(q, block, k)]}
     ELSE {})

RECURSIVE RawItemLists(_, _, _)
\* the item lists of length n of one block
RawItemLists(q, block, n) ==
    IF n = 0 THEN {<<>>}
    ELSE {Append(items, item) : items \in RawItemLists(q, block, n - 1),
                               item \in RawItemsAt(q, block, n)}

\* what the provider may answer to a search for q when it may still list
\* `budget` hits: a failure of the request (HTTP error, network error,
\* poll timeout: search() turns each into a failure dict), or a JSON body
\* with an organic block and, possibly, a news block
ProviderAnswers(q, budget) ==
    {[kind |-> "error", error |-> "Timeout"]}
    \cup
    UNION { { [kind |-> "json", body |-> [organic |-> o]] :
                o \in RawItemLists(q, "o", n) } : n \in 0..budget }
    \cup
    UNION { { [kind |-> "json", body |-> [organic |-> o, news |-> nw]] :
                o \in RawItemLists(q, "o", n[1]), nw \in RawItemLists(q, "n", n[2]) } :
            n \in {m \in (0..budget) \X (1..budget) : m[1] + m[2] <= budget} }

\* the number of hits an answer lists
HitsOf(answer) ==
    IF answer.kind = "error" THEN 0
    ELSE Len(answer.body.organic) + Len(Get(answer.body, "news", <<>>))

\* what ContentExtractor.extract_content may return for a URL (AUTO
\* method), or raise: the page through Trafilatura, the text of a PDF
\* through the PDF parser, a failure
ExtractResults(url) ==
    { [success |-> TRUE, url |-> url, content |-> PageOf(url), method |-> "trafilatura"],
      [success |-> TRUE, url |-> url, content |-> PageOf(url), method |-> "pdf_parser"],
      [success |-> FALSE, url |-> url, error |-> "No content extracted",
       method |-> "trafilatura"],
      Exc("RuntimeError", "extractor error") }

----------------------------------------------------------------------------
(* BrightDataAsyncClient *)

\* str.lower() of a country code
lower(code) == IF code = "US" THEN "us" ELSE code

\* _build_serp_params, for the options num_results, language, country,
\* page, date_range and search_type (location and device left at their
\* defaults)
build_serp_params(query, options) ==
    LET with_num == [q |-> query, brd_json |-> 1, num |-> Get(options, "num_results", 10)]
        with_hl == IF "language" \in DOMAIN options
                   THEN LET hl == Merge(with_num, [hl |-> options.language])
                        IN IF options.language = "zh-CN" /\ "country" \notin DOMAIN options
                           THEN Merge(hl, [gl |-> "cn"])
                           ELSE hl
                   ELSE with_num
        with_gl == IF "country" \in DOMAIN options
                   THEN Merge(with_hl, [gl |-> lower(options.country)])
                   ELSE with_hl
        page == Get(options, "page", 1)
        with_start == IF page > 1
                      THEN Merge(with_gl, [start |-> (page - 1) * with_gl.num])
                      ELSE with_gl
        with_tbs == IF "date_range" \in DOMAIN options
                    THEN Merge(with_start, [tbs |-> <<"qdr:", options.date_range>>])
                    ELSE with_start
    IN IF Get(options, "search_type", "web") = "news"
       THEN Merge(with_tbs, [tbm |-> "nws"])
       ELSE with_tbs

\* _process_serp_results
process_serp_results(results) ==
    LET organic_results == Get(results, "organic", <<>>)
        organic == [i \in 1..Len(organic_results) |->
                      [position |-> i,
                       title |-> Get(organic_results[i], "title", <<>>),
                       url |-> Get(organic_results[i], "link", <<>>),
                       snippet |-> Get(organic_results[i], "description", <<>>)]]
        news_results == Get(results, "news", <<>>)
        news == [i \in 1..Len(news_results) |->
                      [position |-> Len(organic) + i,
                       title |-> Get(news_results[i], "title", <<>>),
                       url |-> Get(news_results[i], "link", <<>>),
                       snippet |-> Get(news_results[i], "description", <<>>),
                       type |-> "news"]]
    IN organic \o news

\* what search() returns for the provider's answer
search_result_of(query, answer) ==
    IF answer.kind = "error"
    THEN [success |-> FALSE, query |-> query, error |-> answer.error]
    ELSE [success |-> TRUE, results |-> process_serp_results(answer.body)]

----------------------------------------------------------------------------
(* Program constants *)

\* AutoSearchTool(max_concurrent_fetch=3): the extractor's max_concurrent
MaxConcurrentFetchDefault == 3
\* BrightDataAsyncClient(max_concurrent=3), as AutoSearchTool builds it
BrightDataMaxConcurrent == 3
\* AutoSearchTool(max_content_length=10000)
MaxContentLength == 10000
\* AutoSearchTool(max_content_tokens=3000)
MaxContentTokens == 3000
\* self.char_to_token_ratio = 4.0
CharToTokenRatio == 4

NL == "\n"

\* '\n\n[内容已截断]', nine characters
TruncationMarker == <<NL, NL, "[", "c1", "c2", "c3", "c4", "c5", "]">>

Min(a, b) == IF a <= b THEN a ELSE b
Max(a, b) == IF a >= b THEN a ELSE b

----------------------------------------------------------------------------
(* ContentExtractor, AUTO method *)

\* whether a token is one of a text
HasToken(text, token) == \E k \in 1..Len(text) : text[k] = token

\* the first three lines of _detect_content_type: the type the URL itself
\* gives away, or "" when a HEAD request has to tell
content_type_of_url(url) ==
    IF url # <<>> /\ url[Len(url)] = ".pdf" THEN "pdf"
    ELSE IF HasToken(url, "/pdf/") \/ HasToken(url, "filetype:pdf") THEN "pdf"
    ELSE ""

\* what the HEAD request may answer: a content-type header, or "failed"
\* for a request that raises
HeadAnswers == {"application/pdf", "text/html", "application/json", "text/plain",
                "image/png", "failed"}

\* the rest of _detect_content_type
content_type_of_head(answer) ==
    IF answer = "application/pdf" THEN "pdf"
    ELSE IF answer = "text/html" THEN "html"
    ELSE IF answer = "application/json" THEN "json"
    ELSE IF answer = "text/plain" THEN "text"
    ELSE "html"

\* how the work of one extractor may end: with a text, with an empty text
\* ("empty"), with a failure or in a timeout of its own
Outcomes == {"success", "empty", "failure", "timeout"}

\* the text the PDF parser reads from the file behind a URL
PdfOf(url) == <<"pdf">> \o url

\* _extract_with_pdf_parser: the name asyncio is local to the method and
\* is bound only after the download, so that the handler of a download
\* timeout raises instead of returning 'Download timeout'
extract_with_pdf_parser(url, outcome) ==
    IF outcome = "success"
    THEN [success |-> TRUE, url |-> url, content |-> PdfOf(url), markdown |-> PdfOf(url),
          method |-> "pdf_parser", is_truncated |-> FALSE]
    ELSE IF outcome \in {"failure", "empty"}
    THEN [success |-> FALSE, url |-> url, error |-> "PDF parsing failed",
          method |-> "pdf_parser"]
    ELSE Exc("UnboundLocalError", "cannot access local variable 'asyncio'")

\* _extract_with_firecrawl: scrape_url turns anything raised, a timeout of
\* the service included, into a failure dict; a scrape that succeeds is a
\* success whatever its markdown is
extract_with_firecrawl(url, outcome) ==
    IF outcome = "success"
    THEN [success |-> TRUE, url |-> url, content |-> PageOf(url), markdown |-> PageOf(url),
          method |-> "firecrawl"]
    ELSE IF outcome = "empty"
    THEN [success |-> TRUE, url |-> url, content |-> <<>>, markdown |-> <<>>,
          method |-> "firecrawl"]
    ELSE IF outcome = "failure"
    THEN [success |-> FALSE, url |-> url, error |-> "Unknown error", method |-> "firecrawl"]
    ELSE [success |-> FALSE, url |-> url, error |-> "Request timeout",
          method |-> "firecrawl"]

\* _extract_with_trafilatura, with TrafilaturaAsyncClient.extract_content,
\* which answers 'No content extracted' when the extraction gives nothing
extract_with_trafilatura(url, outcome) ==
    IF outcome = "success"
    THEN [success |-> TRUE, url |-> url, content |-> PageOf(url), method |-> "trafilatura"]
    ELSE IF outcome \in {"failure", "empty"}
    THEN [success |-> FALSE, url |-> url, error |-> "No content extracted",
          method |-> "trafilatura"]
    ELSE [success |-> FALSE, url |-> url, error |-> "Content extraction timeout (60s)",
          method |-> "trafilatura"]

\* the dict of the AUTO branch when nothing can extract
no_extractor_result(url, content_type) ==
    [success |-> FALSE, url |-> url,
     error |-> IF content_type = "pdf" THEN "No PDF extraction method available"
               ELSE "No extraction client available",
     method |-> "none"]

----------------------------------------------------------------------------
(* SmartContentExtractor *)

RECURSIVE Join(_, _)
\* sep.join(parts)
Join(parts, sep) ==
    IF parts = <<>> THEN <<>>
    ELSE IF Len(parts) = 1 THEN parts[1]
    ELSE parts[1] \o sep \o Join(Tail(parts), sep)

\* _prepare_serp_content
prepare_serp_content(title, snippet, url) ==
    IF title = <<>> /\ snippet = <<>> THEN <<>>
    ELSE LET cleaned_snippet == strip(snippet)
             content_parts ==
                 (IF title # <<>> THEN <<(<<"# ">> \o title)>> ELSE <<>>)
                 \o (IF snippet # <<>> /\ cleaned_snippet # <<>>
                     THEN <<(<<NL>> \o cleaned_snippet)>> ELSE <<>>)
                 \o (IF url # <<>> THEN <<(<<NL, NL, "source: ">> \o url)>> ELSE <<>>)
                 \o << <<NL, NL, "*note*">> >>
         IN Join(content_parts, <<NL>>)

\* smart_extract_content with fallback=True, from the point where the
\* parent's extract_content has returned `result` or raised it (failure
\* learning is switched off in __init__, so no URL is skipped and nothing
\* is recorded)
smart_extract_content(result, url, serp_snippet, serp_title) ==
    LET serp_content == prepare_serp_content(serp_title, serp_snippet, url)
    IN IF IsException(result)
       THEN IF serp_content # <<>>
            THEN [success |-> TRUE, url |-> url, content |-> serp_content,
                  method |-> "serp_fallback_after_exception",
                  is_serp_fallback |-> TRUE,
                  original_exception |-> result.message,
                  content_length |-> Len(serp_content)]
            ELSE [success |-> FALSE, url |-> url, error |-> result.message,
                  content |-> None]
       ELSE LET after ==
                    IF ~result.success /\ serp_content # <<>>
                    THEN [success |-> TRUE, url |-> url, content |-> serp_content,
                          method |-> "serp_fallback_after_failure",
                          is_serp_fallback |-> TRUE,
                          original_error |-> Get(result, "error", ""),
                          content_length |-> Len(serp_content)]
                    ELSE result
            IN Merge(after, [intelligent_extraction |-> TRUE,
                             failure_learning_enabled |-> FALSE])

----------------------------------------------------------------------------
(* AutoSearchTool._fetch_and_process *)

VARIABLES
    max_content_length,   \* self.max_content_length of the tool
    max_content_tokens    \* self.max_content_tokens of the tool

\* the content cap of _fetch_and_process: the token limit first, then the
\* character limit
cap_content(content, extract_result, max_length, max_tokens) ==
    IF Len(content) > max_tokens * CharToTokenRatio
    THEN [content |-> SubSeq(content, 1, max_tokens * CharToTokenRatio)
                      \o TruncationMarker,
          is_truncated |-> TRUE,
          estimated_tokens |-> max_tokens]
    ELSE IF Len(content) > max_length
    THEN LET cut == SubSeq(content, 1, max_length) \o TruncationMarker
         IN [content |-> cut, is_truncated |-> TRUE,
             estimated_tokens |-> Len(cut) \div CharToTokenRatio]
    ELSE [content |-> content,
          is_truncated |-> Get(extract_result, "is_truncated", FALSE),
          estimated_tokens |-> Len(content) \div CharToTokenRatio]

\* _fetch_and_process, from the point where the extractor has returned
fetch_and_process(extract_result) ==
    IF extract_result.success
    THEN LET capped == cap_content(Get(extract_result, "content", <<>>), extract_result,
                                   max_content_length, max_content_tokens)
             result_dict ==
                 [fetch_success |-> TRUE,
                  content |-> capped.content,
                  content_length |-> Len(capped.content),
                  estimated_tokens |-> capped.estimated_tokens,
                  is_truncated |-> capped.is_truncated,
                  extraction_method |-> Get(extract_result, "method", "unknown"),
                  is_pdf |-> (Get(extract_result, "method", "") = "pdf_parser")]
             with_fallback ==
                 IF Get(extract_result, "is_serp_fallback", FALSE)
                 THEN Merge(result_dict,
                            [is_serp_fallback |-> TRUE,
                             skip_reason |-> Get(extract_result, "skip_reason", ""),
                             confidence |-> Get(extract_result, "confidence", 0)])
                 ELSE result_dict
         IN IF Get(extract_result, "intelligent_extraction", FALSE)
            THEN Merge(with_fallback,
                       [intelligent_extraction |-> TRUE,
                        failure_learning_enabled |->
                            Get(extract_result, "failure_learning_enabled", FALSE)])
            ELSE with_fallback
    ELSE [fetch_success |-> FALSE,
          fetch_error |-> Get(extract_result, "error", "Unknown error"),
          content |-> None]

\* a handler that keeps the text of the error to itself
fetch_exception_result_mute(e) ==
    [fetch_success |-> FALSE,
     fetch_error |-> "Unknown error",
     content |-> None]

\* _fetch_and_process, when anything but a timeout is raised
fetch_exception_result(e) ==
    [fetch_success |-> FALSE,
     fetch_error |-> e.message,
     content |-> None]

\* _fetch_and_process, when wait_for raises TimeoutError
fetch_timeout_result(snippet) ==
    [fetch_success |-> FALSE,
     fetch_error |-> "Content extraction timeout",
     content |-> snippet,
     is_timeout |-> TRUE]

----------------------------------------------------------------------------
(* AutoSearchTool.search_and_fetch: the parts that compute *)

\* the dict search_and_fetch returns when the search failed
search_failure(query, search_result) ==
    [success |-> FALSE, query |-> query,
     error |-> Get(search_result, "error", "Search failed"),
     stage |-> "search"]

\* the dict search_and_fetch returns in light mode
light_response(query, search_results) ==
    [success |-> TRUE, query |-> query, mode |-> "light",
     results |-> [i \in 1..Len(search_results) |->
                    [url |-> Get(search_results[i], "url", <<>>),
                     title |-> Get(search_results[i], "title", <<>>),
                     snippet |-> Get(search_results[i], "snippet", <<>>),
                     position |-> Get(search_results[i], "position", i),
                     fetch_success |-> FALSE,
                     fetch_reason |-> "light_mode",
                     content |-> None]],
     statistics |-> [total_results |-> Len(search_results), auto_fetched |-> 0,
                     fetch_success |-> 0, pdf_count |-> 0]]

RECURSIVE SelectWithUrl(_, _)
\* the results with a url among search_results[:auto_fetch_limit]; i is the
\* index of the first of them in search_results
SelectWithUrl(head, i) ==
    IF head = <<>> THEN <<>>
    ELSE (IF Get(head[1], "url", <<>>) # <<>>
          THEN <<[url |-> head[1].url,
                  title |-> Get(head[1], "title", <<>>),
                  snippet |-> Get(head[1], "snippet", <<>>),
                  position |-> Get(head[1], "position", i)]>>
          ELSE <<>>)
         \o SelectWithUrl(Tail(head), i + 1)

\* urls_to_fetch, each item with the _index the task loop gives it
urls_to_fetch_of(search_results, auto_fetch_limit) ==
    LET selected == SelectWithUrl(
                        SubSeq(search_results, 1, Min(auto_fetch_limit, Len(search_results))), 1)
    IN [idx \in 1..Len(selected) |-> Merge(selected[idx], [_index |-> idx - 1])]

\* one pass of the loop that merges an item with the outcome of its task
enhanced_result_of(item, fetch_result) ==
    LET merged == IF IsException(fetch_result)
                  THEN Merge(item, [fetch_success |-> FALSE,
                                    fetch_error |-> fetch_result.message,
                                    content |-> None])
                  ELSE Merge(item, fetch_result)
    IN IF Get(merged, "content", None) = None /\ Get(merged, "snippet", <<>>) # <<>>
       THEN Merge(merged, [content |-> merged.snippet,
                           extraction_method |->
                               Get(merged, "extraction_method", "snippet_fallback")])
       ELSE merged

\* records of the results beyond the limit that hold the title as content
unfetched_results_titled(search_results, auto_fetch_limit) ==
    LET rest == SubSeq(search_results, auto_fetch_limit + 1, Len(search_results))
    IN [i \in 1..Len(rest) |->
          [url |-> Get(rest[i], "url", <<>>),
           title |-> Get(rest[i], "title", <<>>),
           snippet |-> Get(rest[i], "snippet", <<>>),
           position |-> Get(rest[i], "position", 0),
           fetch_success |-> FALSE,
           fetch_reason |-> "exceeded_auto_fetch_limit",
           content |-> Get(rest[i], "title", <<>>),
           extraction_method |-> "snippet_only"]]

\* the records of search_results[auto_fetch_limit:]
unfetched_results(search_results, auto_fetch_limit) ==
    LET rest == SubSeq(search_results, auto_fetch_limit + 1, Len(search_results))
    IN [i \in 1..Len(rest) |->
          [url |-> Get(rest[i], "url", <<>>),
           title |-> Get(rest[i], "title", <<>>),
           snippet |-> Get(rest[i], "snippet", <<>>),
           position |-> Get(rest[i], "position", 0),
           fetch_success |-> FALSE,
           fetch_reason |-> "exceeded_auto_fetch_limit",
           content |-> Get(rest[i], "snippet", <<>>),
           extraction_method |-> "snippet_only"]]

\* a count of every fetch result that is no exception
CountFlag_of_all(fetch_results, flag) ==
    Cardinality({k \in 1..Len(fetch_results) : ~IsException(fetch_results[k])})

\* the number of fetch results, none an exception, that hold flag
CountFlag(fetch_results, flag) ==
    Cardinality({k \in 1..Len(fetch_results) :
                    /\ ~IsException(fetch_results[k])
                    /\ Get(fetch_results[k], flag, FALSE)})

\* the dict search_and_fetch returns in full mode, from the gathered
\* fetch_results (one per item of urls_to_fetch, in the order of the items)
full_response(query, search_results, urls_to_fetch, fetch_results, auto_fetch_limit) ==
    LET enhanced == [i \in 1..Min(Len(urls_to_fetch), Len(fetch_results)) |->
                        enhanced_result_of(urls_to_fetch[i], fetch_results[i])]
    IN [success |-> TRUE, query |-> query,
        results |-> enhanced \o unfetched_results(search_results, auto_fetch_limit),
        statistics |-> [total_results |-> Len(search_results),
                        auto_fetched |-> Len(urls_to_fetch),
                        fetch_success |-> CountFlag(fetch_results, "fetch_success"),
                        pdf_count |-> CountFlag(fetch_results, "is_pdf")]]

----------------------------------------------------------------------------
(* auto_search: the parts that compute *)

\* the loop that stamps the results of one query with the query and its index
stamp_results(query_results, search_query, i) ==
    [k \in 1..Len(query_results) |->
        Merge(query_results[k], [search_query |-> search_query, search_index |-> i])]

\* whether the aggregation loop takes the branch of a successful query
Succeeded(result) == ~IsException(result) /\ Get(result, "success", FALSE)

\* an entry of query_details with the index counted from 1
query_detail_from_one(search_query, i, result) ==
    IF Succeeded(result)
    THEN [query |-> search_query, query_index |-> i + 1, success |-> TRUE,
          results_count |-> Len(Get(result, "results", <<>>)),
          statistics |-> Get(result, "statistics", <<>>)]
    ELSE [query |-> search_query, query_index |-> i + 1, success |-> FALSE,
          error |-> "Search failed"]

\* the entry of query_details for the query at index i (counted from 0)
query_detail(search_query, i, result) ==
    IF IsException(result)
    THEN [query |-> search_query, query_index |-> i, success |-> FALSE,
          error |-> result.message]
    ELSE IF Get(result, "success", FALSE)
    THEN [query |-> search_query, query_index |-> i, success |-> TRUE,
          results_count |-> Len(Get(result, "results", <<>>)),
          statistics |-> Get(result, "statistics", <<>>)]
    ELSE [query |-> search_query, query_index |-> i, success |-> FALSE,
          error |-> Get(result, "error", "Search failed")]

RECURSIVE all_results_of(_, _, _)
\* all_results: the stamped results of the successful queries, from task k on
all_results_of(search_tasks, search_results, k) ==
    IF k > Len(search_tasks) THEN <<>>
    ELSE (IF Succeeded(search_results[k])
          THEN stamp_results(Get(search_results[k], "results", <<>>), search_tasks[k], k - 1)
          ELSE <<>>)
         \o all_results_of(search_tasks, search_results, k + 1)

RECURSIVE SumStat(_, _, _)
\* the sum of one statistics counter over the successful queries, from task k on
SumStat(search_results, counter, k) ==
    IF k > Len(search_results) THEN 0
    ELSE (IF Succeeded(search_results[k])
          THEN Get(Get(search_results[k], "statistics", <<>>), counter, 0)
          ELSE 0)
         + SumStat(search_results, counter, k + 1)

\* the dict auto_search returns for a parallel request, from the gathered
\* search_results (one per query task, in the order of the tasks)
parallel_response(query, request_mode, tags, search_tasks, search_results) ==
    [success |-> TRUE,
     query |-> query,
     mode |-> request_mode,
     search_type |-> "parallel",
     parallel_queries |-> tags,
     results |-> all_results_of(search_tasks, search_results, 1),
     statistics |->
        [total_queries |-> Len(tags),
         successful_queries |->
             Cardinality({k \in 1..Len(search_results) : Succeeded(search_results[k])}),
         total_results |-> SumStat(search_results, "total_results", 1),
         total_fetched |-> SumStat(search_results, "auto_fetched", 1),
         total_fetch_success |-> SumStat(search_results, "fetch_success", 1),
         total_pdf_count |-> SumStat(search_results, "pdf_count", 1),
         query_details |-> [k \in 1..Len(search_tasks) |->
                               query_detail(search_tasks[k], k - 1, search_results[k])]]]

\* results_per_query
results_per_query_of(n, tags) == Max(1, n \div Len(tags))

\* max_concurrent, the size of the semaphore of a parallel request (the
\* same expression in light and in full mode)
max_concurrent_of(extractor_max_concurrent, tags) ==
    Min(Max(1, extractor_max_concurrent), Len(tags))

----------------------------------------------------------------------------
(* State *)

VARIABLES
    raw_query,               \* the query argument of auto_search
    num_results,             \* the num_results argument
    mode,                    \* the mode argument
    auto_fetch_limit,        \* tool_instance.auto_fetch_limit
    enable_smart_extraction, \* tool_instance.enable_smart_extraction
    max_concurrent_fetch,    \* content_extractor.max_concurrent
    hits_left,               \* the hits the provider may still list
    call_pc,                 \* where auto_search is: "idle", "running", "done"
    search_tags,             \* search_tags
    queries,                 \* the query of each query task
    q_pc,                    \* where each query task is
    q_hits,                  \* search_results of each query task
    q_items,                 \* urls_to_fetch of each query task
    q_result,                \* what each query task ended with
    f_pc,                    \* where each fetch task of each query is
    f_out,                   \* what each fetch task ended with
    gate_sem,                \* the free permits of auto_search's semaphore
    bd_sem,                  \* the free permits of brightdata_client.semaphore
    fetch_sem,               \* the free permits of each query's fetch semaphore
    ext_sem,                 \* the free permits of content_extractor.semaphore
    ext_waiters,             \* the fetch tasks waiting for ext_sem, oldest first
    serp_calls,              \* the SERP requests each query task has sent
    ext_calls,               \* the URLs handed to the content extractor, by query task
    answers,                 \* what the provider and the web answered, and the timeouts
    overtaken,               \* whether a task ended before an earlier task of its batch
    orphans,                 \* the extractions that outlived the task that awaited them
    response,                \* what auto_search returned or raised
    parser,                  \* a run of format_parallel_search and parse_search_queries
    extraction,              \* a run of extract_content and of the fetch task around it
    capping,                 \* a run of the content cap of _fetch_and_process
    learning,                \* a run of smart_extract_content calls for the URLs of one host
    clock,                   \* a call of auto_search against the clock
    polling,                 \* a run of _poll_async_result for one SERP job
    search_params,           \* a call of _build_serp_params with search options
    pdf                      \* a run of _extract_with_pdf_parser with its temporary file

inputs == <<raw_query, num_results, mode, auto_fetch_limit, enable_smart_extraction,
            max_concurrent_fetch, max_content_length, max_content_tokens>>

\* the state of a call of auto_search
call_vars == <<hits_left, call_pc, search_tags, queries, q_pc, q_hits, q_items, q_result,
               f_pc, f_out, gate_sem, bd_sem, fetch_sem, ext_sem, ext_waiters, serp_calls,
               ext_calls, answers, overtaken, orphans, response>>

vars == <<inputs, call_vars, parser, extraction, capping, learning, clock, polling, search_params, pdf>>

\* a task that has not ended
Pending == [pending |-> TRUE]

\* a part of the model that a specification leaves out
Unused == [pc |-> "unused"]

\* the state a step works on
State ==
    [hits_left |-> hits_left, call_pc |-> call_pc, search_tags |-> search_tags,
     queries |-> queries, q_pc |-> q_pc, q_hits |-> q_hits, q_items |-> q_items,
     q_result |-> q_result, f_pc |-> f_pc, f_out |-> f_out, gate_sem |-> gate_sem,
     bd_sem |-> bd_sem, fetch_sem |-> fetch_sem, ext_sem |-> ext_sem,
     ext_waiters |-> ext_waiters, serp_calls |-> serp_calls, ext_calls |-> ext_calls,
     answers |-> answers,
     overtaken |-> overtaken, orphans |-> orphans, response |-> response]

\* the next state is s; the request and the configuration stay
Becomes(s) ==
    /\ hits_left' = s.hits_left
    /\ call_pc' = s.call_pc
    /\ search_tags' = s.search_tags
    /\ queries' = s.queries
    /\ q_pc' = s.q_pc
    /\ q_hits' = s.q_hits
    /\ q_items' = s.q_items
    /\ q_result' = s.q_result
    /\ f_pc' = s.f_pc
    /\ f_out' = s.f_out
    /\ gate_sem' = s.gate_sem
    /\ bd_sem' = s.bd_sem
    /\ fetch_sem' = s.fetch_sem
    /\ ext_sem' = s.ext_sem
    /\ ext_waiters' = s.ext_waiters
    /\ serp_calls' = s.serp_calls
    /\ ext_calls' = s.ext_calls
    /\ answers' = s.answers
    /\ overtaken' = s.overtaken
    /\ orphans' = s.orphans
    /\ response' = s.response
    /\ UNCHANGED <<inputs, parser, extraction, capping, learning, clock, polling, search_params, pdf>>

\* whether the request runs as a parallel search
IsParallel(s) == Len(s.search_tags) > 1

\* the least element of a non-empty set of numbers
Least(S) == CHOOSE x \in S : \A y \in S : x <= y

----------------------------------------------------------------------------
(* Query tasks *)

\* the num_results a query task passes to search_and_fetch
query_num_results(s) ==
    IF IsParallel(s) THEN results_per_query_of(num_results, s.search_tags)
    ELSE num_results

\* BrightDataAsyncClient.search up to its POST: async with self.semaphore,
\* then the request goes out
start_search(s, i) ==
    IF s.bd_sem > 0
    THEN [s EXCEPT !.bd_sem = @ - 1,
                   !.q_pc[i] = "serp",
                   !.serp_calls[i] =
                       Append(@, build_serp_params(s.queries[i],
                                     [num_results |-> query_num_results(s)]))]
    ELSE [s EXCEPT !.q_pc[i] = "bd_wait"]

\* the end of async with self.semaphore in search: the permit goes to the
\* oldest waiting search, if there is one
release_bd(s) ==
    LET waiting == {k \in 1..Len(s.q_pc) : s.q_pc[k] = "bd_wait"}
    IN IF waiting # {}
       THEN start_search([s EXCEPT !.bd_sem = @ + 1], Least(waiting))
       ELSE [s EXCEPT !.bd_sem = @ + 1]

\* a search_with_limit that does not wait for the semaphore
start_query_task_ungated(s, i) == start_search([s EXCEPT !.gate_sem = @ - 1], i)

\* search_with_limit up to its first suspension: async with semaphore, then
\* search_and_fetch up to the POST
start_query_task(s, i) ==
    IF s.gate_sem > 0
    THEN start_search([s EXCEPT !.gate_sem = @ - 1], i)
    ELSE [s EXCEPT !.q_pc[i] = "gate"]

RECURSIVE start_query_tasks(_, _)
\* the query tasks from i on start in the order create_task made them
start_query_tasks(s, i) ==
    IF i > Len(s.queries) THEN s
    ELSE start_query_tasks(start_query_task(s, i), i + 1)

\* the end of async with semaphore in search_with_limit
release_gate(s) ==
    LET waiting == {k \in 1..Len(s.q_pc) : s.q_pc[k] = "gate"}
    IN IF waiting # {}
       THEN start_search(s, Least(waiting))
       ELSE [s EXCEPT !.gate_sem = @ + 1]

\* auto_search after its gather (parallel) or after search_and_fetch
\* (single): the response, or the exception that leaves auto_search
respond(s) ==
    [s EXCEPT
        !.call_pc = "done",
        !.response =
            IF IsParallel(s)
            THEN parallel_response(raw_query, mode, s.search_tags, s.queries, s.q_result)
            ELSE IF IsException(s.q_result[1])
            THEN [raised |-> s.q_result[1]]
            ELSE Merge(s.q_result[1], [search_type |-> "single"])]

\* query task i ends with result (a dict, or an exception)
finish_query(s, i, result) ==
    LET ended == [s EXCEPT !.q_pc[i] = "done",
                           !.q_result[i] = result,
                           !.f_pc[i] = <<>>,
                           !.f_out[i] = <<>>,
                           !.overtaken = @ \/ \E k \in 1..(i - 1) : s.q_pc[k] # "done"]
        released == IF IsParallel(s) THEN release_gate(ended) ELSE ended
    IN IF \A k \in 1..Len(released.q_pc) : released.q_pc[k] = "done"
       THEN respond(released)
       ELSE released

----------------------------------------------------------------------------
(* Fetch tasks *)

\* ContentExtractor.extract_content at the end of async with self.semaphore
release_ext(s) ==
    IF s.ext_waiters # <<>>
    THEN LET w == Head(s.ext_waiters)
         IN [s EXCEPT !.ext_waiters = Tail(@), !.f_pc[w[1]][w[2]] = "extracting"]
    ELSE [s EXCEPT !.ext_sem = @ + 1]

RECURSIVE release_ext_n(_, _)
release_ext_n(s, n) == IF n = 0 THEN s ELSE release_ext_n(release_ext(s), n - 1)

\* an extractor that lets every caller in
enter_extractor_unbounded(s, i, j) ==
    [s EXCEPT !.ext_calls = @ \cup {<<i, s.q_items[i][j].url>>},
              !.ext_sem = @ - 1,
              !.f_pc[i][j] = "extracting"]

\* _fetch_and_process up to its first suspension: the extractor is called
\* and waits for its semaphore or sends its first request
enter_extractor(s, i, j) ==
    LET called == [s EXCEPT !.ext_calls = @ \cup {<<i, s.q_items[i][j].url>>}]
    IN IF s.ext_sem > 0
       THEN [called EXCEPT !.ext_sem = @ - 1, !.f_pc[i][j] = "extracting"]
       ELSE [called EXCEPT !.f_pc[i][j] = "ext_wait",
                           !.ext_waiters = Append(@, <<i, j>>)]

\* fetch_with_semaphore up to its first suspension
start_fetch_task(s, i, j) ==
    IF s.fetch_sem[i] > 0
    THEN enter_extractor([s EXCEPT !.fetch_sem[i] = @ - 1], i, j)
    ELSE [s EXCEPT !.f_pc[i][j] = "sem_wait"]

RECURSIVE start_fetch_tasks(_, _, _)
\* the fetch tasks of query i from j on start in the order gather got them
start_fetch_tasks(s, i, j) ==
    IF j > Len(s.q_items[i]) THEN s
    ELSE start_fetch_tasks(start_fetch_task(s, i, j), i, j + 1)

\* a gather that hands the outcomes back last task first
gathered_backwards(outcomes) ==
    [k \in 1..Len(outcomes) |-> outcomes[Len(outcomes) + 1 - k]]

\* what gather hands back: the outcomes in the order of the tasks
gathered(outcomes) == outcomes

\* fetch task j of query i ends with outcome; the last task of the batch
\* to end lets search_and_fetch assemble its response
finish_fetch(s, i, j, outcome) ==
    LET ended == [s EXCEPT !.f_pc[i][j] = "done",
                           !.f_out[i][j] = outcome,
                           !.overtaken =
                               @ \/ \E k \in 1..(j - 1) : s.f_pc[i][k] # "done"]
        waiting == {k \in 1..Len(ended.f_pc[i]) : ended.f_pc[i][k] = "sem_wait"}
        released == IF waiting # {}
                    THEN enter_extractor(ended, i, Least(waiting))
                    ELSE [ended EXCEPT !.fetch_sem[i] = @ + 1]
    IN IF \A k \in 1..Len(released.f_pc[i]) : released.f_pc[i][k] = "done"
       THEN finish_query(released, i,
                full_response(s.queries[i], s.q_hits[i], s.q_items[i],
                              gathered(released.f_out[i]), auto_fetch_limit))
       ELSE released

\* the fetch stage of search_and_fetch up to await wait_for(gather(...))
start_fetch_batch(s, i, search_results) ==
    LET urls_to_fetch == urls_to_fetch_of(search_results, auto_fetch_limit)
        effective_concurrent == Min(max_concurrent_fetch, Len(urls_to_fetch))
        started == [s EXCEPT !.q_pc[i] = "fetch",
                             !.q_hits[i] = search_results,
                             !.q_items[i] = urls_to_fetch,
                             !.fetch_sem[i] = effective_concurrent,
                             !.f_pc[i] = [j \in 1..Len(urls_to_fetch) |-> "new"],
                             !.f_out[i] = [j \in 1..Len(urls_to_fetch) |-> Pending]]
    IN IF urls_to_fetch = <<>>
       THEN finish_query(started, i,
                full_response(s.queries[i], search_results, urls_to_fetch, <<>>,
                              auto_fetch_limit))
       ELSE start_fetch_tasks(started, i, 1)

\* the fetch tasks of query i whose extraction has swallowed the
\* cancellation of its per-URL timeout and goes on inside the extractor
late_extractions(s, i) ==
    {j \in 1..Len(s.f_pc[i]) : s.f_pc[i][j] = "extracting" /\ <<i, j>> \in s.answers.late}

\* what a cancellation from outside may do to the late extractions of
\* query i.  Their wait_for already waits for the cancelled extraction to
\* end: where wait_for runs the extraction as a task of its own, the
\* second cancellation leaves wait_for at once and the extraction goes on
\* alone, with its permit; where wait_for runs it in the caller's task,
\* the cancellation reaches the extraction
OrphanChoices(s, i) == {{}, late_extractions(s, i)}

\* the cancellation of the fetch tasks of query i: those waiting for the
\* extractor leave its queue, those inside it give their permit back,
\* but for the extractions left to go on alone
cancel_fetch_tasks(s, i, left_alone) ==
    LET inside == {j \in 1..Len(s.f_pc[i]) : s.f_pc[i][j] = "extracting"}
        gone == [s EXCEPT !.ext_waiters = SelectSeq(@, LAMBDA w : w[1] # i),
                          !.f_pc[i] = <<>>,
                          !.f_out[i] = <<>>,
                          !.orphans = @ + Cardinality(left_alone)]
    IN release_ext_n(gone, Cardinality(inside \ left_alone))

\* search_and_fetch after search() has returned
after_search(s, i, search_result) ==
    IF ~search_result.success
    THEN finish_query(s, i, search_failure(s.queries[i], search_result))
    ELSE LET search_results == Get(search_result, "results", <<>>)
         IN IF mode = "light"
            THEN finish_query([s EXCEPT !.q_hits[i] = search_results], i,
                              light_response(s.queries[i], search_results))
            ELSE start_fetch_batch(s, i, search_results)

----------------------------------------------------------------------------
(* Requests and configurations *)

\* the text of the k-th query of a generated request
QueryText(k) == IF k % 2 = 1 THEN <<"a">> ELSE <<"b">>

RECURSIVE InnerOf(_)
\* the inner text of a tagged request of n queries; a lone pipe for n = 0
InnerOf(n) ==
    IF n = 0 THEN <<PIPE>>
    ELSE IF n = 1 THEN QueryText(1)
    ELSE InnerOf(n - 1) \o <<PIPE>> \o QueryText(n)

\* the tagged request of n queries
TaggedRequest(n) == <<OPEN>> \o InnerOf(n) \o <<CLOSE>>

\* the requests of the main specification: one tagged query, and parallel
\* requests of up to MaxQueries queries
Requests == {TaggedRequest(n) : n \in 1..MaxQueries}

\* the mode arguments: the two modes and one that is neither
Modes == {"light", "full", "deep"}

\* auto_search(query, num_results=10, ...)
DefaultNumResults == 10

\* the num_results arguments: the default and one below 1
NumResults == {0, DefaultNumResults}

\* the values of AutoSearchTool(max_concurrent_fetch=...)
ConcurrentFetchValues == {1, MaxConcurrentFetchDefault}

\* the state before auto_search is called, but for the request and the
\* configuration
InitRest ==
    /\ call_pc = "idle"
    /\ search_tags = <<>>
    /\ queries = <<>>
    /\ q_pc = <<>>
    /\ q_hits = <<>>
    /\ q_items = <<>>
    /\ q_result = <<>>
    /\ f_pc = <<>>
    /\ f_out = <<>>
    /\ gate_sem = 0
    /\ bd_sem = BrightDataMaxConcurrent
    /\ fetch_sem = <<>>
    /\ ext_sem = max_concurrent_fetch
    /\ ext_waiters = <<>>
    /\ serp_calls = <<>>
    /\ ext_calls = {}
    /\ answers = [serp |-> <<>>, ext |-> {}, late |-> {}, timeout |-> <<>>, cut |-> <<>>,
                  cancel |-> [cancelled |-> FALSE]]
    /\ overtaken = FALSE
    /\ orphans = 0
    /\ response = Pending

\* the content limits AutoSearchTool has by default
DefaultLimits ==
    /\ max_content_length = MaxContentLength
    /\ max_content_tokens = MaxContentTokens

Init ==
    /\ raw_query \in Requests
    /\ num_results = DefaultNumResults
    /\ mode \in {"light", "full"}
    /\ auto_fetch_limit \in 0..MaxFetchLimit
    /\ enable_smart_extraction \in BOOLEAN
    /\ max_concurrent_fetch \in ConcurrentFetchValues
    /\ hits_left = MaxHits
    /\ InitRest
    /\ DefaultLimits
    /\ parser = Unused
    /\ extraction = Unused
    /\ capping = Unused
    /\ learning = Unused
    /\ clock = Unused
    /\ polling = Unused
    /\ search_params = Unused
    /\ pdf = Unused

\* create_auto_search_tool(auto_fetch_limit=5)
DefaultAutoFetchLimit == 5

\* every text of up to MaxRawLen tokens as the query, every mode with the
\* default num_results and every num_results with the default mode, the
\* tool as create_auto_search_tool configures it, and a provider that has
\* no hit to list
InitGrammar ==
    /\ raw_query \in SeqsUpTo(Alphabet, MaxRawLen)
    /\ \E arguments \in (Modes \X {DefaultNumResults}) \cup ({"full"} \X NumResults) :
          /\ mode = arguments[1]
          /\ num_results = arguments[2]
    /\ auto_fetch_limit = DefaultAutoFetchLimit
    /\ enable_smart_extraction = TRUE
    /\ max_concurrent_fetch = MaxConcurrentFetchDefault
    /\ hits_left = 0
    /\ InitRest
    /\ DefaultLimits
    /\ parser = Unused
    /\ extraction = Unused
    /\ capping = Unused
    /\ learning = Unused
    /\ clock = Unused
    /\ polling = Unused
    /\ search_params = Unused
    /\ pdf = Unused

----------------------------------------------------------------------------
(* Actions *)

\* the answer of an extraction that single_url_timeout cut off
TimedOut == [timed_out |-> TRUE]

\* a timeout of query task i is on record, with the outcomes its fetch
\* tasks had when a batch timeout cut them, and the answers its cancelled
\* work had got are dropped
timed_out(s, i, level) ==
    [s EXCEPT !.answers.timeout[i] = level,
              !.answers.cut[i] = IF level = "batch" THEN s.f_out[i] ELSE <<>>,
              !.answers.serp[i] = Pending,
              !.answers.ext = {e \in @ : e.i # i},
              !.answers.late = {w \in @ : w[1] # i}]

\* what the extractor call of _fetch_and_process returns, or raises, when
\* the parent's extract_content has answered `result`
extract_result_of(result, item) ==
    IF enable_smart_extraction
    THEN smart_extract_content(result, item.url, item.snippet, item.title)
    ELSE result

\* what _fetch_and_process returns when extract_content has answered
\* `result` or single_url_timeout has cut it off
fetch_outcome(result, item) ==
    IF result = TimedOut THEN fetch_timeout_result(item.snippet)
    ELSE LET extract_result == extract_result_of(result, item)
         IN IF IsException(extract_result) THEN fetch_exception_result(extract_result)
            ELSE fetch_and_process(extract_result)

\* auto_search is called: it parses the query, and starts the query tasks
\* (parallel) or search_and_fetch (single); each runs to its first
\* suspension
AutoSearch ==
    /\ call_pc = "idle"
    /\ LET tags == search_tags_of(raw_query)
           search_tasks == IF Len(tags) > 1
                           THEN SelectNonEmptyStripped(tags)
                           ELSE <<(IF tags # <<>> THEN tags[1] ELSE raw_query)>>
           n == Len(search_tasks)
           called == [State EXCEPT
                        !.call_pc = "running",
                        !.search_tags = tags,
                        !.queries = search_tasks,
                        !.q_pc = [i \in 1..n |-> "new"],
                        !.q_hits = [i \in 1..n |-> <<>>],
                        !.q_items = [i \in 1..n |-> <<>>],
                        !.q_result = [i \in 1..n |-> Pending],
                        !.f_pc = [i \in 1..n |-> <<>>],
                        !.f_out = [i \in 1..n |-> <<>>],
                        !.fetch_sem = [i \in 1..n |-> 0],
                        !.serp_calls = [i \in 1..n |-> <<>>],
                        !.answers = [serp |-> [i \in 1..n |-> Pending],
                                     ext |-> {},
                                     late |-> {},
                                     timeout |-> [i \in 1..n |-> "none"],
                                     cut |-> [i \in 1..n |-> <<>>],
                                     cancel |-> [cancelled |-> FALSE]],
                        !.gate_sem = IF Len(tags) > 1
                                     THEN max_concurrent_of(max_concurrent_fetch, tags)
                                     ELSE 0]
       IN Becomes(IF Len(tags) > 1
                  THEN start_query_tasks(called, 1)
                  ELSE start_search(called, 1))

\* the provider answers the search of query task i: search() returns, and
\* search_and_fetch goes on to its response or to its fetch batch
SerpAnswer(i) ==
    /\ call_pc = "running"
    /\ q_pc[i] = "serp"
    /\ \E answer \in ProviderAnswers(queries[i], hits_left) :
          LET returned == release_bd([State EXCEPT !.hits_left = @ - HitsOf(answer),
                                                   !.answers.serp[i] = answer])
          IN Becomes(after_search(returned, i, search_result_of(queries[i], answer)))

\* the extractor returns for fetch task j of query i
ExtractDone(i, j) ==
    /\ call_pc = "running"
    /\ q_pc[i] = "fetch"
    /\ f_pc[i][j] = "extracting"
    /\ LET item == q_items[i][j]
       IN \E result \in ExtractResults(item.url) :
             LET answered == [State EXCEPT
                                !.answers.ext = @ \cup {[i |-> i, j |-> j, result |-> result]}]
             IN Becomes(finish_fetch(release_ext(answered), i, j,
                                     fetch_outcome(result, item)))

\* whether the cancellation that wait_for sends into extract_content may
\* be lost: _detect_content_type sends its HEAD request inside try ...
\* except: pass, and a bare except catches CancelledError; a URL that
\* names a PDF is answered before the try
may_swallow(s, i, j) ==
    /\ s.f_pc[i][j] = "extracting"
    /\ content_type_of_url(s.q_items[i][j].url) = ""

\* single_url_timeout runs out for fetch task j of query i, which waits
\* for the extractor's semaphore or for the extraction itself.  wait_for
\* cancels extract_content once and waits for it to end: when the
\* cancellation arrives during the HEAD request it is swallowed, the
\* extraction goes on with no timeout left, and wait_for hands on what it
\* returns in the end
UrlTimeout(i, j) ==
    /\ call_pc = "running"
    /\ q_pc[i] = "fetch"
    /\ f_pc[i][j] \in {"ext_wait", "extracting"}
    /\ <<i, j>> \notin answers.late
    /\ \E swallowed \in {FALSE} \cup {may_swallow(State, i, j)} :
          IF swallowed
          THEN Becomes([State EXCEPT !.answers.late = @ \cup {<<i, j>>}])
          ELSE LET timed == [State EXCEPT
                                !.answers.ext =
                                    @ \cup {[i |-> i, j |-> j, result |-> TimedOut]}]
                   left == IF f_pc[i][j] = "extracting"
                           THEN release_ext(timed)
                           ELSE [timed EXCEPT
                                    !.ext_waiters = SelectSeq(@, LAMBDA w : w # <<i, j>>)]
               IN Becomes(finish_fetch(left, i, j,
                                       fetch_outcome(TimedOut, q_items[i][j])))

\* parallel_timeout runs out for the fetch batch of query i: wait_for
\* cancels the gather and raises TimeoutError, and the handler asks the
\* coroutine objects of fetch_tasks for done(), which they do not have
BatchTimeout(i) ==
    /\ call_pc = "running"
    /\ q_pc[i] = "fetch"
    /\ \E left_alone \in OrphanChoices(State, i) :
          Becomes(finish_query(
                      cancel_fetch_tasks(timed_out(State, i, "batch"), i, left_alone), i,
                      Exc("AttributeError", "'coroutine' object has no attribute 'done'")))

\* search_timeout runs out for query task i of a parallel request:
\* wait_for cancels search_and_fetch and search_with_limit raises on
QueryTimeout(i) ==
    /\ call_pc = "running"
    /\ IsParallel(State)
    /\ q_pc[i] \in {"bd_wait", "serp", "fetch"}
    /\ \E left_alone \in OrphanChoices(State, i) :
          LET timed == timed_out(State, i, "query")
              cancelled == IF q_pc[i] = "serp" THEN release_bd(timed)
                           ELSE IF q_pc[i] = "fetch"
                                THEN cancel_fetch_tasks(timed, i, left_alone)
                                ELSE timed
          IN Becomes(finish_query(cancelled, i, Exc("TimeoutError", "")))

\* an extraction that was left to go on alone ends: the async with of
\* extract_content gives its permit back, and nobody awaits the result
OrphanEnds ==
    /\ orphans > 0
    /\ Becomes(release_ext([State EXCEPT !.orphans = @ - 1]))

Next ==
    \/ AutoSearch
    \/ \E i \in 1..Len(q_pc) : SerpAnswer(i)
    \/ \E i \in 1..Len(q_pc) : \E j \in 1..Len(f_pc[i]) : ExtractDone(i, j)
    \/ \E i \in 1..Len(q_pc) : \E j \in 1..Len(f_pc[i]) : UrlTimeout(i, j)
    \/ \E i \in 1..Len(q_pc) : BatchTimeout(i)
    \/ \E i \in 1..Len(q_pc) : QueryTimeout(i)
    \/ OrphanEnds

Spec == Init /\ [][Next]_vars

----------------------------------------------------------------------------
(* The caller cancels the call *)

\* the task that runs auto_search is cancelled.  auto_search awaits the
\* gather of its query tasks (parallel) or search_and_fetch (single), and
\* no try of auto_search, search_and_fetch or _fetch_and_process names
\* CancelledError, which is no Exception: the query tasks and the fetch
\* tasks that have not ended are cancelled, what had ended is dropped with
\* the frames that held it, and CancelledError leaves auto_search
cancel_call(s, left_alone) ==
    [s EXCEPT
        !.call_pc = "done",
        !.q_pc = [i \in DOMAIN s.q_pc |-> "done"],
        !.q_result = [i \in DOMAIN s.q_result |->
                         IF s.q_pc[i] = "done" THEN s.q_result[i]
                         ELSE Exc("CancelledError", "")],
        !.f_pc = [i \in DOMAIN s.f_pc |-> <<>>],
        !.f_out = [i \in DOMAIN s.f_out |-> <<>>],
        !.ext_waiters = <<>>,
        !.orphans = @ + Cardinality(left_alone),
        !.ext_sem = max_concurrent_fetch - (s.orphans + Cardinality(left_alone)),
        !.bd_sem = BrightDataMaxConcurrent,
        !.gate_sem = IF IsParallel(s)
                     THEN max_concurrent_of(max_concurrent_fetch, s.search_tags)
                     ELSE 0,
        !.answers.cancel = [cancelled |-> TRUE, q_result |-> s.q_result,
                            f_out |-> s.f_out],
        !.response = [raised |-> Exc("CancelledError", "")]]

\* the late extractions of all query tasks
AllLateExtractions(s) ==
    UNION {{<<i, j>> : j \in late_extractions(s, i)} : i \in 1..Len(s.f_pc)}

\* the caller cancels auto_search while it runs
Cancel ==
    /\ call_pc = "running"
    /\ \E left_alone \in {{}, AllLateExtractions(State)} :
          Becomes(cancel_call(State, left_alone))

NextCancel ==
    \/ Next
    \/ Cancel

SpecCancel == Init /\ [][NextCancel]_vars

\* the event loop runs every task that can go on, every request is
\* answered or runs into one of its timeouts, and an extraction left alone
\* ends: a step of the call that can be taken is taken in the end.  The
\* caller may cancel, and need not
SpecLive == Init /\ [][NextCancel]_vars /\ WF_vars(Next)

\* with no hit to fetch no fetch task exists, so these are all the steps
\* of Next that a run from InitGrammar can take
NextGrammar ==
    \/ AutoSearch
    \/ \E i \in 1..Len(q_pc) : SerpAnswer(i)
    \/ \E i \in 1..Len(q_pc) : QueryTimeout(i)

SpecGrammar == InitGrammar /\ [][NextGrammar]_vars

----------------------------------------------------------------------------
(* A call whose queries compete for the extractor *)

\* a parallel request in full mode, with as many extractor permits as
\* queries and a provider that lists one hit more than that
InitContended ==
    /\ raw_query = TaggedRequest(MaxQueries)
    /\ num_results = DefaultNumResults
    /\ mode = "full"
    /\ auto_fetch_limit = MaxFetchLimit
    /\ enable_smart_extraction = TRUE
    /\ max_concurrent_fetch = MaxQueries
    /\ hits_left = MaxQueries + 1
    /\ InitRest
    /\ DefaultLimits
    /\ parser = Unused
    /\ extraction = Unused
    /\ capping = Unused
    /\ learning = Unused
    /\ clock = Unused
    /\ polling = Unused
    /\ search_params = Unused
    /\ pdf = Unused

SpecContended == InitContended /\ [][Next]_vars

----------------------------------------------------------------------------
(* The search parser on its own *)

\* the queries handed to format_parallel_search: the texts of up to
\* MaxQueryLen tokens that are not empty and have no blank at an end
QueryTexts == {q \in SeqsUpTo(Alphabet, MaxQueryLen) : q # <<>> /\ strip(q) = q}

\* the lists handed to format_parallel_search
QueryLists == {qs \in SeqsUpTo(QueryTexts, MaxListLen) : qs # <<>>}

\* a list of queries is given, and auto_search is not called
InitParser ==
    /\ raw_query = TaggedRequest(1)
    /\ num_results = DefaultNumResults
    /\ mode = "full"
    /\ auto_fetch_limit = DefaultAutoFetchLimit
    /\ enable_smart_extraction = TRUE
    /\ max_concurrent_fetch = MaxConcurrentFetchDefault
    /\ hits_left = 0
    /\ InitRest
    /\ DefaultLimits
    /\ \E qs \in QueryLists : parser = [pc |-> "new", queries |-> qs]
    /\ extraction = Unused
    /\ capping = Unused
    /\ learning = Unused
    /\ clock = Unused
    /\ polling = Unused
    /\ search_params = Unused
    /\ pdf = Unused

\* format_parallel_search(queries)
FormatParallelSearch ==
    /\ parser.pc = "new"
    /\ parser' = [pc |-> "formatted", queries |-> parser.queries,
                  text |-> format_parallel_search(parser.queries)]
    /\ UNCHANGED <<inputs, call_vars, extraction, capping, learning, clock, polling, search_params, pdf>>

\* parse_search_queries(text), for the text that was formatted
ParseSearchQueries ==
    /\ parser.pc = "formatted"
    /\ parser' = [pc |-> "parsed", queries |-> parser.queries, text |-> parser.text,
                  parsed |-> parse_search_queries(parser.text)]
    /\ UNCHANGED <<inputs, call_vars, extraction, capping, learning, clock, polling, search_params, pdf>>

NextParser ==
    \/ FormatParallelSearch
    \/ ParseSearchQueries

SpecParser == InitParser /\ [][NextParser]_vars

----------------------------------------------------------------------------
(* One fetch task on its own: extract_content step by step *)

\* the URLs of the hit: a page, and two that _detect_content_type takes
\* for a PDF by their text
ExtractUrls == {<<"http:", "x">>, <<"http:", "x", ".pdf">>, <<"http:", "/pdf/", "x">>}

\* the hits handed to the fetch task, as urls_to_fetch holds them
ExtractItems ==
    {[url |-> u, title |-> t, snippet |-> sn, position |-> 1, _index |-> 0] :
        u \in ExtractUrls, t \in {<<>>, <<"t">>}, sn \in {<<>>, <<"s">>}}

\* the content limits of the tool: the defaults, and a limit below the
\* length of a formatted hit
ContentLimits ==
    {[length |-> MaxContentLength, tokens |-> MaxContentTokens],
     [length |-> SmallContentLength, tokens |-> MaxContentTokens],
     [length |-> MaxContentLength, tokens |-> SmallContentTokens]}

\* an extractor with or without a FireCrawl key and with or without the
\* trafilatura package (the PDF parser is a module of the repository, so
\* its import succeeds), a hit, and the fallback argument of
\* extract_content; auto_search is not called
InitExtract ==
    /\ raw_query = TaggedRequest(1)
    /\ num_results = DefaultNumResults
    /\ mode = "full"
    /\ auto_fetch_limit = DefaultAutoFetchLimit
    /\ enable_smart_extraction \in BOOLEAN
    /\ max_concurrent_fetch = MaxConcurrentFetchDefault
    /\ hits_left = 0
    /\ InitRest
    /\ \E limits \in ContentLimits :
          /\ max_content_length = limits.length
          /\ max_content_tokens = limits.tokens
    /\ parser = Unused
    /\ \E item \in ExtractItems, fallback \in BOOLEAN, clients \in [1..2 -> BOOLEAN] :
          extraction = [pc |-> "new", item |-> item, fallback |-> fallback,
                        firecrawl_client |-> clients[1],
                        trafilatura_client |-> clients[2],
                        pdf_parser |-> TRUE,
                        content_type |-> "", invoked |-> <<>>, late |-> FALSE,
                        threads |-> {}, result |-> None, record |-> None]
    /\ capping = Unused
    /\ learning = Unused
    /\ clock = Unused
    /\ polling = Unused
    /\ search_params = Unused
    /\ pdf = Unused

\* extract_content returns result
returns(e, result) == [e EXCEPT !.pc = "returned", !.result = result]

\* the AUTO branch of extract_content once the content type is known, up
\* to the first extractor it awaits
auto_extract(e, content_type) ==
    LET typed == [e EXCEPT !.content_type = content_type]
    IN IF content_type = "pdf"
       THEN IF e.pdf_parser THEN [typed EXCEPT !.pc = "pdf_parser"]
            ELSE IF e.firecrawl_client THEN [typed EXCEPT !.pc = "firecrawl"]
            ELSE returns(typed, no_extractor_result(e.item.url, content_type))
       ELSE IF e.trafilatura_client THEN [typed EXCEPT !.pc = "trafilatura"]
            ELSE IF e.firecrawl_client THEN [typed EXCEPT !.pc = "firecrawl"]
            ELSE returns(typed, no_extractor_result(e.item.url, content_type))

\* e with one more extractor invoked
invoke(e, extractor, outcome) ==
    [e EXCEPT !.invoked = Append(@, [extractor |-> extractor, outcome |-> outcome])]

\* e with the job that the extractor gave to a worker thread abandoned:
\* the await of run_in_executor or to_thread is cancelled, the function in
\* the thread runs on
abandon(e, extractor) == [e EXCEPT !.threads = @ \cup {extractor}]

\* extract_content(url, fallback) is called: it detects the content type
\* from the URL, or sends a HEAD request
ExtractContent ==
    /\ extraction.pc = "new"
    /\ LET content_type == content_type_of_url(extraction.item.url)
       IN extraction' = IF content_type # ""
                        THEN auto_extract(extraction, content_type)
                        ELSE [extraction EXCEPT !.pc = "head"]
    /\ UNCHANGED <<inputs, call_vars, parser, capping, learning, clock, polling, search_params, pdf>>

\* the HEAD request of _detect_content_type is answered, or fails
DetectContentType ==
    /\ extraction.pc = "head"
    /\ \E answer \in HeadAnswers :
          extraction' = auto_extract(extraction, content_type_of_head(answer))
    /\ UNCHANGED <<inputs, call_vars, parser, capping, learning, clock, polling, search_params, pdf>>

\* _extract_with_pdf_parser ends, and extract_content goes on
ExtractWithPdfParser ==
    /\ extraction.pc = "pdf_parser"
    /\ \E outcome \in Outcomes :
          LET result == extract_with_pdf_parser(extraction.item.url, outcome)
              e == invoke(extraction, "pdf_parser", outcome)
          IN extraction' =
                IF IsException(result) THEN returns(e, result)
                ELSE IF ~result.success /\ e.fallback
                THEN IF e.firecrawl_client THEN [e EXCEPT !.pc = "firecrawl"]
                     ELSE IF e.trafilatura_client THEN [e EXCEPT !.pc = "trafilatura"]
                     ELSE returns(e, result)
                ELSE returns(e, result)
    /\ UNCHANGED <<inputs, call_vars, parser, capping, learning, clock, polling, search_params, pdf>>

\* _extract_with_firecrawl ends: its result is the result of extract_content
ExtractWithFirecrawl ==
    /\ extraction.pc = "firecrawl"
    /\ \E outcome \in Outcomes :
          extraction' = returns(invoke(extraction, "firecrawl", outcome),
                                extract_with_firecrawl(extraction.item.url, outcome))
    /\ UNCHANGED <<inputs, call_vars, parser, capping, learning, clock, polling, search_params, pdf>>

\* _extract_with_trafilatura ends, and extract_content goes on
ExtractWithTrafilatura ==
    /\ extraction.pc = "trafilatura"
    /\ \E outcome \in Outcomes :
          LET result == extract_with_trafilatura(extraction.item.url, outcome)
              invoked == invoke(extraction, "trafilatura", outcome)
              e == IF outcome = "timeout" THEN abandon(invoked, "trafilatura")
                   ELSE invoked
          IN extraction' =
                IF /\ e.content_type # "pdf"
                   /\ ~result.success /\ e.fallback /\ e.firecrawl_client
                THEN [e EXCEPT !.pc = "firecrawl"]
                ELSE returns(e, result)
    /\ UNCHANGED <<inputs, call_vars, parser, capping, learning, clock, polling, search_params, pdf>>

\* the rest of the fetch task, which calls the extractor with
\* fallback=True, and the pass of the merge loop for its hit
FetchAndProcess ==
    /\ extraction.pc = "returned"
    /\ extraction.fallback
    /\ extraction' =
          [extraction EXCEPT
              !.pc = "done",
              !.record = enhanced_result_of(extraction.item,
                                            fetch_outcome(extraction.result,
                                                          extraction.item))]
    /\ UNCHANGED <<inputs, call_vars, parser, capping, learning, clock, polling, search_params, pdf>>

\* what a cancellation does to an extraction that awaits an extractor: it
\* ends the call ("cancelled"), but for one that finds the PDF parser
\* still downloading.  There the except clauses are tried on the
\* CancelledError, and the first of them names asyncio before the import
\* inside the function has bound it ("raised").  job tells whether the
\* extractor was waiting for a worker thread: the PDF parser after its
\* download (to_thread), FireCrawl all along (scrape_url), Trafilatura
\* after it has fetched the page (_extract_sync)
cancel_outcomes(extractor) ==
    IF extractor = "pdf_parser"
    THEN {[outcome |-> "raised", job |-> FALSE], [outcome |-> "cancelled", job |-> TRUE]}
    ELSE IF extractor = "firecrawl"
    THEN {[outcome |-> "cancelled", job |-> TRUE]}
    ELSE {[outcome |-> "cancelled", job |-> FALSE], [outcome |-> "cancelled", job |-> TRUE]}

\* wait_for(extract_content(...), single_url_timeout) of the fetch task
\* runs out while extract_content awaits the HEAD request or an extractor,
\* and cancels the call where it stands.  The bare except around the HEAD
\* request swallows the cancellation: the call goes on as for an HTML
\* page, with no timeout left
SingleUrlTimeout ==
    /\ extraction.pc \in {"head", "pdf_parser", "firecrawl", "trafilatura"}
    /\ extraction.fallback
    /\ ~extraction.late
    /\ IF extraction.pc = "head"
       THEN extraction' = [auto_extract(extraction, "html") EXCEPT !.late = TRUE]
       ELSE \E c \in cancel_outcomes(extraction.pc) :
               LET invoked == invoke(extraction, extraction.pc, c.outcome)
                   e == IF c.job THEN abandon(invoked, extraction.pc) ELSE invoked
               IN extraction' =
                     IF c.outcome = "raised"
                     THEN returns(e, extract_with_pdf_parser(e.item.url, "timeout"))
                     ELSE [e EXCEPT
                              !.pc = "done",
                              !.result = TimedOut,
                              !.record = enhanced_result_of(
                                             e.item, fetch_outcome(TimedOut, e.item))]
    /\ UNCHANGED <<inputs, call_vars, parser, capping, learning, clock, polling, search_params, pdf>>

\* the function that runs in a worker thread returns; nobody waits for
\* what it returns
ThreadEnds ==
    /\ \E job \in extraction.threads :
          extraction' = [extraction EXCEPT !.threads = @ \ {job}]
    /\ UNCHANGED <<inputs, call_vars, parser, capping, learning, clock, polling, search_params, pdf>>

NextExtract ==
    \/ ExtractContent
    \/ DetectContentType
    \/ ExtractWithPdfParser
    \/ ExtractWithFirecrawl
    \/ ExtractWithTrafilatura
    \/ FetchAndProcess
    \/ SingleUrlTimeout
    \/ ThreadEnds

SpecExtract == InitExtract /\ [][NextExtract]_vars

----------------------------------------------------------------------------
(* The content cap on its own *)

RECURSIVE Body(_)
\* an extracted body of n characters
Body(n) == IF n = 0 THEN <<>> ELSE Append(Body(n - 1), "x")

\* a tool with any content limits up to MaxCapLength and MaxCapTokens, and
\* an extractor result with a body of up to MaxBodyLen characters that
\* the extractor itself did or did not truncate; auto_search is not called
InitCap ==
    /\ raw_query = TaggedRequest(1)
    /\ num_results = DefaultNumResults
    /\ mode = "full"
    /\ auto_fetch_limit = DefaultAutoFetchLimit
    /\ enable_smart_extraction = FALSE
    /\ max_concurrent_fetch = MaxConcurrentFetchDefault
    /\ hits_left = 0
    /\ InitRest
    /\ max_content_length \in 1..MaxCapLength
    /\ max_content_tokens \in 1..MaxCapTokens
    /\ parser = Unused
    /\ extraction = Unused
    /\ \E n \in 0..MaxBodyLen, truncated \in BOOLEAN :
          capping = [pc |-> "new",
                     extract_result |->
                         [success |-> TRUE, url |-> <<"http:", "x">>, content |-> Body(n),
                          method |-> "trafilatura", is_truncated |-> truncated]]
    /\ learning = Unused
    /\ clock = Unused
    /\ polling = Unused
    /\ search_params = Unused
    /\ pdf = Unused

\* _fetch_and_process caps the content of the extractor's result
CapContent ==
    /\ capping.pc = "new"
    /\ capping' = [pc |-> "capped", extract_result |-> capping.extract_result,
                   result |-> fetch_and_process(capping.extract_result)]
    /\ UNCHANGED <<inputs, call_vars, parser, extraction, learning, clock, polling, search_params, pdf>>

\* the cap is applied once more, to the content it has put out
CapAgain ==
    /\ capping.pc = "capped"
    /\ capping' = [pc |-> "recapped", extract_result |-> capping.extract_result,
                   result |-> capping.result,
                   again |-> cap_content(capping.result.content,
                                         [is_truncated |-> capping.result.is_truncated],
                                         max_content_length, max_content_tokens)]
    /\ UNCHANGED <<inputs, call_vars, parser, extraction, learning, clock, polling, search_params, pdf>>

NextCap ==
    \/ CapContent
    \/ CapAgain

SpecCap == InitCap /\ [][NextCap]_vars

----------------------------------------------------------------------------
(* The smart extractor, request after request for one host *)

\* self.enable_failure_learning: __init__ sets it to False whatever the
\* argument enable_failure_learning is
EnableFailureLearning == FALSE

\* whether smart_extract_content skips the crawl: failure_db is consulted
\* only with failure learning enabled, and no failure_db is ever created
should_skip(log) == EnableFailureLearning /\ FALSE

\* the result of smart_extract_content when it skips the crawl
skip_result(item) ==
    LET serp_content == prepare_serp_content(item.title, item.snippet, item.url)
    IN [success |-> TRUE, url |-> item.url, content |-> serp_content,
        method |-> "serp_fallback", is_serp_fallback |-> TRUE,
        skip_reason |-> "", confidence |-> 0, content_length |-> Len(serp_content)]

\* the tool as create_auto_search_tool builds it, and a hit of the host;
\* auto_search is not called
InitLearning ==
    /\ raw_query = TaggedRequest(1)
    /\ num_results = DefaultNumResults
    /\ mode = "full"
    /\ auto_fetch_limit = DefaultAutoFetchLimit
    /\ enable_smart_extraction = TRUE
    /\ max_concurrent_fetch = MaxConcurrentFetchDefault
    /\ hits_left = 0
    /\ InitRest
    /\ DefaultLimits
    /\ parser = Unused
    /\ extraction = Unused
    /\ capping = Unused
    /\ \E item \in {it \in ExtractItems : content_type_of_url(it.url) = ""} :
          learning = [item |-> item, log |-> <<>>]
    /\ clock = Unused
    /\ polling = Unused
    /\ search_params = Unused
    /\ pdf = Unused

\* smart_extract_content(url, serp_snippet, serp_title) for a URL of the
\* host: the crawl is skipped or the parent's extract_content is called,
\* and answers or raises
SmartExtractContent ==
    /\ Len(learning.log) < MaxRequests
    /\ LET item == learning.item
       IN IF should_skip(learning.log)
          THEN learning' = [learning EXCEPT
                               !.log = Append(@, [issued |-> FALSE, failed |-> FALSE,
                                                  result |-> skip_result(item)])]
          ELSE \E result \in ExtractResults(item.url) :
                  learning' =
                      [learning EXCEPT
                          !.log = Append(@, [issued |-> TRUE,
                                             failed |-> (IsException(result)
                                                         \/ ~result.success),
                                             result |-> smart_extract_content(
                                                            result, item.url,
                                                            item.snippet, item.title)])]
    /\ UNCHANGED <<inputs, call_vars, parser, extraction, capping, clock, polling, search_params, pdf>>

NextLearning == SmartExtractContent

SpecLearning == InitLearning /\ [][NextLearning]_vars

----------------------------------------------------------------------------
(* A call of auto_search against the clock *)

\* search_timeout of the parallel branch of auto_search, in seconds
SearchTimeoutLight == 60
SearchTimeoutFull == 120

\* BrightDataAsyncClient(timeout=40): the total timeout of its session
SessionTimeout == 40

\* max_total_time of _poll_async_result when BRIGHTDATA_POLL_TIMEOUT is
\* not set
PollTimeout == 30

\* AutoSearchTool(parallel_timeout=30.0)
ParallelTimeout == 30

RECURSIVE Gcd(_, _)
Gcd(a, b) == IF b = 0 THEN a ELSE Gcd(b, a % b)

\* the step of the clock: the largest with which every time limit is a
\* whole number of steps
ClockStep ==
    Gcd(Gcd(SearchTimeoutLight, SearchTimeoutFull),
        Gcd(SessionTimeout, Gcd(PollTimeout, ParallelTimeout)))

\* search_timeout for a mode
search_timeout_of(m) == IF m = "light" THEN SearchTimeoutLight ELSE SearchTimeoutFull

\* a time within which search_and_fetch ends by its own timeouts: the POST
\* within the session timeout and the polling within its total time, and
\* in full mode the fetch batch within parallel_timeout
own_limit_of(m) ==
    SessionTimeout + PollTimeout + (IF m = "light" THEN 0 ELSE ParallelTimeout)

\* the time after which a query that runs has ended: in the parallel
\* branch wait_for(search_and_fetch(...), search_timeout) is around it, in
\* the single branch auto_search awaits search_and_fetch as it is
limit_of(c) ==
    IF c.parallel THEN Min(search_timeout_of(mode), own_limit_of(mode))
    ELSE own_limit_of(mode)

\* requests of up to MaxClockQueries queries, both modes and both widths
\* of the gate; auto_search is not called yet
InitClock ==
    /\ raw_query \in {TaggedRequest(n) : n \in 1..MaxClockQueries}
    /\ num_results = DefaultNumResults
    /\ mode \in {"light", "full"}
    /\ auto_fetch_limit = DefaultAutoFetchLimit
    /\ enable_smart_extraction = TRUE
    /\ max_concurrent_fetch \in ConcurrentFetchValues
    /\ hits_left = 0
    /\ InitRest
    /\ DefaultLimits
    /\ parser = Unused
    /\ extraction = Unused
    /\ capping = Unused
    /\ learning = Unused
    /\ clock = [pc |-> "new", now |-> 0, parallel |-> FALSE, tasks |-> <<>>]
    /\ polling = Unused
    /\ search_params = Unused
    /\ pdf = Unused

\* the query tasks that wait at the semaphore of auto_search
AtGate(c) == {k \in 1..Len(c.tasks) : c.tasks[k].pc = "gate"}

\* query task i ends at the time of the clock; in the parallel branch its
\* permit goes to the first task that waits, which starts its
\* search_and_fetch, and its timeout, now; auto_search returns when the
\* last task has ended
end_query(c, i, cut) ==
    LET ended == [c EXCEPT !.tasks[i] = [@ EXCEPT !.pc = "done", !.ended = c.now,
                                                  !.cut = cut]]
        released == IF AtGate(ended) # {}
                    THEN [ended EXCEPT !.tasks[Least(AtGate(ended))] =
                                          [@ EXCEPT !.pc = "running", !.started = c.now]]
                    ELSE ended
    IN IF \A k \in 1..Len(released.tasks) : released.tasks[k].pc = "done"
       THEN [released EXCEPT !.pc = "done"]
       ELSE released

\* auto_search is called at time 0: the parallel branch starts as many
\* query tasks as its semaphore has permits, the single branch its one
\* search_and_fetch
ClockCall ==
    /\ clock.pc = "new"
    /\ LET tags == search_tags_of(raw_query)
           width == IF Len(tags) > 1 THEN max_concurrent_of(max_concurrent_fetch, tags)
                    ELSE 1
       IN clock' = [clock EXCEPT
                       !.pc = "running",
                       !.parallel = Len(tags) > 1,
                       !.tasks = [k \in 1..Max(1, Len(tags)) |->
                                     [pc |-> IF k <= width THEN "running" ELSE "gate",
                                      started |-> 0, ended |-> 0, cut |-> FALSE]]]
    /\ UNCHANGED <<inputs, call_vars, parser, extraction, capping, learning, polling, search_params, pdf>>

\* ClockStep seconds pass; no query that runs has reached the time at
\* which it ends
Tick ==
    /\ clock.pc = "running"
    /\ \A k \in 1..Len(clock.tasks) :
          clock.tasks[k].pc = "running" =>
              clock.now - clock.tasks[k].started < limit_of(clock)
    /\ clock' = [clock EXCEPT !.now = @ + ClockStep]
    /\ UNCHANGED <<inputs, call_vars, parser, extraction, capping, learning, polling, search_params, pdf>>

\* search_and_fetch of query task i returns or raises
QueryEnds(i) ==
    /\ clock.pc = "running"
    /\ clock.tasks[i].pc = "running"
    /\ clock' = end_query(clock, i, FALSE)
    /\ UNCHANGED <<inputs, call_vars, parser, extraction, capping, learning, polling, search_params, pdf>>

\* search_timeout runs out for query task i of the parallel branch
QueryCutOff(i) ==
    /\ clock.pc = "running"
    /\ clock.parallel
    /\ clock.tasks[i].pc = "running"
    /\ clock.now - clock.tasks[i].started = search_timeout_of(mode)
    /\ clock' = end_query(clock, i, TRUE)
    /\ UNCHANGED <<inputs, call_vars, parser, extraction, capping, learning, polling, search_params, pdf>>

NextClock ==
    \/ ClockCall
    \/ Tick
    \/ \E i \in 1..Len(clock.tasks) : QueryEnds(i)
    \/ \E i \in 1..Len(clock.tasks) : QueryCutOff(i)

SpecClock == InitClock /\ [][NextClock]_vars

----------------------------------------------------------------------------
(* BrightDataAsyncClient._poll_async_result *)

\* _poll_async_result(response_id, max_retries=20)
MaxRetries == 20

\* aiohttp.ClientTimeout(total=5) of one poll request, in seconds
PollRequestTimeout == 5

\* what a poll request may meet: a status of the provider (200 with a JSON
\* body, 202, a status that raise_for_status lets pass, a status that it
\* raises on), or no answer within PollRequestTimeout
PollAnswers == {"200", "202", "204", "500", "timeout"}

\* the decoded body of the answer with status 200
PollBody == [organic |-> <<>>]

\* wait_time after a 202 at an attempt, in tenths of a second
wait_time_of(attempt) ==
    IF attempt = 0 THEN 20
    ELSE IF attempt <= 2 THEN 15
    ELSE IF attempt <= 5 THEN 20
    ELSE IF attempt <= 9 THEN 30
    ELSE IF attempt <= 11 THEN 40
    ELSE 50

\* wait_time after a poll request that timed out, in tenths of a second
timeout_wait_time_of(attempt) ==
    IF attempt = 0 THEN 20
    ELSE IF attempt <= 2 THEN 15
    ELSE 20

\* polling begins for the response_id of a SERP job, at the top of the
\* loop with attempt 0; times are in tenths of a second
InitPolling ==
    /\ raw_query = TaggedRequest(1)
    /\ num_results = DefaultNumResults
    /\ mode = "light"
    /\ auto_fetch_limit = DefaultAutoFetchLimit
    /\ enable_smart_extraction = TRUE
    /\ max_concurrent_fetch = MaxConcurrentFetchDefault
    /\ hits_left = 0
    /\ InitRest
    /\ DefaultLimits
    /\ parser = Unused
    /\ extraction = Unused
    /\ capping = Unused
    /\ learning = Unused
    /\ clock = Unused
    /\ polling = [pc |-> "top", attempt |-> 0, elapsed |-> 0, wait |-> 0,
                  requests |-> 0, last |-> "none", other |-> "none",
                  polled_after_other |-> FALSE, result |-> None]
    /\ search_params = Unused
    /\ pdf = Unused

\* _poll_async_result raises e
poll_raises(p, e) == [p EXCEPT !.pc = "raised", !.result = e]

\* the handler `except Exception as e` around a poll request: the last
\* attempt raises e on, any other sleeps a second and polls again
poll_except(p, e) ==
    IF p.attempt = MaxRetries - 1 THEN poll_raises(p, e)
    ELSE [p EXCEPT !.pc = "sleep", !.wait = 10]

\* the messages of the exceptions _poll_async_result raises itself: the
\* attempts are used up, or the total time is
PollTimeoutErrors == {"poll timeout", "poll timeout (total time)"}

\* what search() returns once _poll_async_result has returned the body
\* results_data or raised: the handlers of aiohttp.ClientError and of
\* Exception turn what was raised into a failure dict
search_after_poll(query, outcome) ==
    IF ~IsException(outcome)
    THEN [success |-> TRUE, results |-> process_serp_results(outcome)]
    ELSE IF outcome.exception = "ClientResponseError"
    THEN [success |-> FALSE, query |-> query,
          error |-> "Network error: " \o outcome.message]
    ELSE [success |-> FALSE, query |-> query, error |-> outcome.message]

\* a loop that does not look at the elapsed time
PollRequest_no_budget ==
    /\ polling.pc = "top"
    /\ polling' =
          IF polling.attempt >= MaxRetries
          THEN poll_raises(polling, Exc("Exception", "poll timeout"))
          ELSE [polling EXCEPT !.pc = "get",
                               !.last = "none",
                               !.requests = @ + 1,
                               !.polled_after_other = @ \/ polling.other # "none"]
    /\ UNCHANGED <<inputs, call_vars, parser, extraction, capping, learning, clock, search_params, pdf>>

\* the top of the loop: the attempts are used up, or the total time is,
\* or the next poll request goes out
PollRequest ==
    /\ polling.pc = "top"
    /\ polling' =
          IF polling.attempt >= MaxRetries
          THEN poll_raises(polling, Exc("Exception", "poll timeout"))
          ELSE IF polling.elapsed > PollTimeout * 10
          THEN poll_raises(polling, Exc("Exception", "poll timeout (total time)"))
          ELSE [polling EXCEPT !.pc = "get",
                               !.last = "none",
                               !.requests = @ + 1,
                               !.polled_after_other = @ \/ polling.other # "none"]
    /\ UNCHANGED <<inputs, call_vars, parser, extraction, capping, learning, clock, search_params, pdf>>

\* the poll request is answered, or times out
PollAnswer ==
    /\ polling.pc = "get"
    /\ \E answer \in PollAnswers :
          LET p == [polling EXCEPT
                       !.last = answer,
                       !.other = IF @ = "none" /\ answer \in {"204", "500"}
                                 THEN answer ELSE @,
                       !.elapsed = IF answer = "timeout"
                                   THEN @ + PollRequestTimeout * 10 ELSE @]
          IN polling' =
                IF answer = "200"
                THEN [p EXCEPT !.pc = "returned", !.result = PollBody]
                ELSE IF answer = "202"
                THEN [p EXCEPT !.pc = "sleep", !.wait = wait_time_of(p.attempt)]
                ELSE IF answer = "204"
                THEN [p EXCEPT !.pc = "top", !.attempt = @ + 1]
                ELSE IF answer = "500"
                THEN poll_except(p, Exc("ClientResponseError", "HTTP 500"))
                ELSE IF p.attempt = MaxRetries - 1
                THEN poll_raises(p, Exc("Exception", "poll timeout"))
                ELSE [p EXCEPT !.pc = "sleep", !.wait = timeout_wait_time_of(p.attempt)]
    /\ UNCHANGED <<inputs, call_vars, parser, extraction, capping, learning, clock, search_params, pdf>>

\* asyncio.sleep(wait_time) is over: the loop goes on to its next attempt
PollWake ==
    /\ polling.pc = "sleep"
    /\ polling' = [polling EXCEPT !.pc = "top", !.attempt = @ + 1,
                                  !.elapsed = @ + polling.wait, !.wait = 0]
    /\ UNCHANGED <<inputs, call_vars, parser, extraction, capping, learning, clock, search_params, pdf>>

NextPolling ==
    \/ PollRequest
    \/ PollAnswer
    \/ PollWake

SpecPolling == InitPolling /\ [][NextPolling]_vars

----------------------------------------------------------------------------
(* BrightDataAsyncClient._build_serp_params with search options *)

\* the dicts that give one option, or leave it out
OptionChoices(key, values) == {<<>>} \cup {[k \in {key} |-> v] : v \in values}

\* the options of a search: every option is given or left out
SearchOptions ==
    {Merge(Merge(Merge(Merge(Merge(n, l), c), p), d), t) :
        n \in OptionChoices("num_results", {5}),
        l \in OptionChoices("language", {"en", "zh-CN"}),
        c \in OptionChoices("country", {"US", "cn"}),
        p \in OptionChoices("page", {1, 2}),
        d \in OptionChoices("date_range", {"d"}),
        t \in OptionChoices("search_type", {"web", "news"})}

\* search(query, **kwargs) is about to build the parameters of its request
InitParams ==
    /\ raw_query = TaggedRequest(1)
    /\ num_results = DefaultNumResults
    /\ mode = "light"
    /\ auto_fetch_limit = DefaultAutoFetchLimit
    /\ enable_smart_extraction = TRUE
    /\ max_concurrent_fetch = MaxConcurrentFetchDefault
    /\ hits_left = 0
    /\ InitRest
    /\ DefaultLimits
    /\ parser = Unused
    /\ extraction = Unused
    /\ capping = Unused
    /\ learning = Unused
    /\ clock = Unused
    /\ polling = Unused
    /\ \E options \in SearchOptions :
          search_params = [pc |-> "call", query |-> QueryText(1), options |-> options,
                           params |-> None]
    /\ pdf = Unused

\* search_params = self._build_serp_params(query, kwargs)
BuildSerpParams ==
    /\ search_params.pc = "call"
    /\ search_params' =
          [search_params EXCEPT
              !.pc = "built",
              !.params = build_serp_params(search_params.query, search_params.options)]
    /\ UNCHANGED <<inputs, call_vars, parser, extraction, capping, learning, clock, polling, pdf>>

NextParams == BuildSerpParams

SpecParams == InitParams /\ [][NextParams]_vars

----------------------------------------------------------------------------
(* ContentExtractor._extract_with_pdf_parser and its temporary file *)

\* the URLs that extract_content hands to the PDF parser
PdfUrls == {u \in ExtractUrls : content_type_of_url(u) = "pdf"}

\* what the GET request for the PDF may meet: a status, or no answer within
\* self.timeout
PdfAnswers == {"200", "404", "500", "timeout"}

\* how pdf_parser.parse may end: the outcomes of the extractor, or an
\* exception
ParseOutcomes == {"success", "empty", "failure", "raises"}

\* _extract_with_pdf_parser(url, include_metadata) is called on an extractor
\* that has a PDF parser: temp_file_path is not bound, the name asyncio is
\* not bound, no temporary file is on the disk, no worker thread is at work
InitPdf ==
    /\ raw_query = TaggedRequest(1)
    /\ num_results = DefaultNumResults
    /\ mode = "full"
    /\ auto_fetch_limit = DefaultAutoFetchLimit
    /\ enable_smart_extraction = TRUE
    /\ max_concurrent_fetch = MaxConcurrentFetchDefault
    /\ hits_left = 0
    /\ InitRest
    /\ DefaultLimits
    /\ parser = Unused
    /\ extraction = Unused
    /\ capping = Unused
    /\ learning = Unused
    /\ clock = Unused
    /\ polling = Unused
    /\ search_params = Unused
    /\ \E url \in PdfUrls, include_metadata \in BOOLEAN :
          pdf = [pc |-> "get", url |-> url, include_metadata |-> include_metadata,
                 imported |-> FALSE, temp_file_path |-> FALSE, files |-> 0,
                 threads |-> {}, cancelled |-> FALSE, swallowed |-> FALSE,
                 pending |-> None, result |-> None]

\* the failure dict of the PDF parser
pdf_failure(url, error) ==
    [success |-> FALSE, url |-> url, error |-> error, method |-> "pdf_parser"]

\* what the except clauses make of an exception raised in the try block:
\* `except asyncio.TimeoutError` is evaluated first, and raises
\* UnboundLocalError while the local name asyncio is not bound; a
\* cancellation passes both clauses
pdf_handlers(p, e) ==
    IF ~p.imported
    THEN Exc("UnboundLocalError", "cannot access local variable 'asyncio'")
    ELSE IF e.exception = "CancelledError" THEN e
    ELSE IF e.exception = "TimeoutError" THEN pdf_failure(p.url, "Download timeout")
    ELSE pdf_failure(p.url, e.message)

\* the finally clause, with what the method is about to return or raise:
\* if temp_file_path is bound and the file exists, os.unlink is given to a
\* worker thread and awaited
pdf_finally(p, pending) ==
    IF p.temp_file_path /\ p.files > 0
    THEN [p EXCEPT !.pc = "cleanup", !.pending = pending, !.threads = @ \cup {"unlink"}]
    ELSE [p EXCEPT !.pc = "done", !.result = pending]

\* the GET request is answered, or times out
PdfResponse ==
    /\ pdf.pc = "get"
    /\ \E answer \in PdfAnswers :
          pdf' = IF answer = "200" THEN [pdf EXCEPT !.pc = "read"]
                 ELSE IF answer = "timeout"
                 THEN pdf_finally(pdf, pdf_handlers(pdf, Exc("TimeoutError", "")))
                 ELSE pdf_finally(pdf, pdf_failure(pdf.url, <<"HTTP", answer>>))
    /\ UNCHANGED <<inputs, call_vars, parser, extraction, capping, learning, clock, polling, search_params>>

\* response.read() ends: with the bytes of the PDF, after which asyncio is
\* imported and _write_temp_pdf is given to a worker thread, or with an
\* error of the connection
PdfRead ==
    /\ pdf.pc = "read"
    /\ \E ok \in BOOLEAN :
          pdf' = IF ok
                 THEN [pdf EXCEPT !.pc = "write", !.imported = TRUE,
                                  !.threads = @ \cup {"write"}]
                 ELSE pdf_finally(pdf, pdf_handlers(pdf, Exc("ClientPayloadError", "payload")))
    /\ UNCHANGED <<inputs, call_vars, parser, extraction, capping, learning, clock, polling, search_params>>

\* _write_temp_pdf runs in its worker thread: NamedTemporaryFile(delete=False)
\* creates the file.  If the method still awaits it, temp_file_path is
\* bound and pdf_parser.parse is given to a worker thread
WriteTempPdf ==
    /\ "write" \in pdf.threads
    /\ LET written == [pdf EXCEPT !.files = @ + 1, !.threads = @ \ {"write"}]
       IN pdf' = IF pdf.pc = "write"
                 THEN [written EXCEPT !.pc = "parse", !.temp_file_path = TRUE,
                                      !.threads = @ \cup {"parse"}]
                 ELSE written
    /\ UNCHANGED <<inputs, call_vars, parser, extraction, capping, learning, clock, polling, search_params>>

\* what the method makes of the end of pdf_parser.parse
parse_result(p, outcome) ==
    IF outcome = "raises"
    THEN pdf_handlers(p, Exc("RuntimeError", "parser error"))
    ELSE IF outcome = "success" /\ p.include_metadata
    THEN Merge(extract_with_pdf_parser(p.url, outcome),
               [metadata |-> [title |-> <<>>, source_url |-> p.url]])
    ELSE extract_with_pdf_parser(p.url, outcome)

\* pdf_parser.parse ends in its worker thread; if the method still awaits
\* it, the method builds its result and goes into the finally clause
PdfParse ==
    /\ "parse" \in pdf.threads
    /\ LET parsed == [pdf EXCEPT !.threads = @ \ {"parse"}]
       IN IF pdf.pc = "parse"
          THEN \E outcome \in ParseOutcomes :
                  pdf' = pdf_finally(parsed, parse_result(parsed, outcome))
          ELSE pdf' = parsed
    /\ UNCHANGED <<inputs, call_vars, parser, extraction, capping, learning, clock, polling, search_params>>

\* os.unlink runs in its worker thread; if the method still awaits it, the
\* method returns or raises what was pending
UnlinkTempPdf ==
    /\ "unlink" \in pdf.threads
    /\ LET unlinked == [pdf EXCEPT !.files = @ - 1, !.threads = @ \ {"unlink"}]
       IN pdf' = IF pdf.pc = "cleanup"
                 THEN [unlinked EXCEPT !.pc = "done", !.result = pdf.pending]
                 ELSE unlinked
    /\ UNCHANGED <<inputs, call_vars, parser, extraction, capping, learning, clock, polling, search_params>>

\* the per-URL timeout, the batch timeout or the query timeout cancels the
\* task while the method awaits: the request, the body, or a worker
\* thread.  A job that has not begun in its thread is dropped (started =
\* FALSE); one that has begun runs on.  The bare except around the await
\* of os.unlink swallows a cancellation that arrives there
PdfCancel ==
    /\ pdf.pc \in {"get", "read", "write", "parse", "cleanup"}
    /\ ~pdf.cancelled
    /\ LET p == [pdf EXCEPT !.cancelled = TRUE]
           job == IF pdf.pc = "write" THEN "write"
                  ELSE IF pdf.pc = "parse" THEN "parse" ELSE "unlink"
       IN IF pdf.pc \in {"get", "read"}
          THEN pdf' = pdf_finally(p, pdf_handlers(p, Exc("CancelledError", "")))
          ELSE IF pdf.pc = "cleanup"
          THEN pdf' = [p EXCEPT !.pc = "done", !.result = pdf.pending, !.swallowed = TRUE]
          ELSE \E started \in BOOLEAN :
                  LET q == IF started THEN p ELSE [p EXCEPT !.threads = @ \ {job}]
                  IN pdf' = pdf_finally(q, pdf_handlers(q, Exc("CancelledError", "")))
    /\ UNCHANGED <<inputs, call_vars, parser, extraction, capping, learning, clock, polling, search_params>>

NextPdf ==
    \/ PdfResponse
    \/ PdfRead
    \/ WriteTempPdf
    \/ PdfParse
    \/ UnlinkTempPdf
    \/ PdfCancel

SpecPdf == InitPdf /\ [][NextPdf]_vars

----------------------------------------------------------------------------
(* What the claims speak of *)

\* auto_search has ended
Done == call_pc = "done"

\* auto_search has ended by returning a response
Returned == Done /\ "raised" \notin DOMAIN response

\* the request ran as a parallel search
Parallel == Len(search_tags) > 1

\* query i failed at the SERP layer
SerpFailed(i) == ~IsException(q_result[i]) /\ Get(q_result[i], "stage", "") = "search"

\* the index of the query a result record belongs to (0 in a single search)
SearchIndexOf(r) == Get(r, "search_index", 0)

\* the result records of query i, in the order of the response
RecordsOf(i) == SelectSeq(response.results, LAMBDA r : SearchIndexOf(r) = i - 1)

RECURSIVE HitsOfSuccessful(_)
\* the number of hits the SERP layer returned for the successful queries
\* from query k on
HitsOfSuccessful(k) ==
    IF k > Len(q_result) THEN 0
    ELSE (IF Succeeded(q_result[k]) THEN Len(q_hits[k]) ELSE 0) + HitsOfSuccessful(k + 1)

\* a response record with the keys every response has
WellFormed(r) ==
    /\ {"success", "query", "search_type"} \subseteq DOMAIN r
    /\ r.success \in BOOLEAN
    /\ r.success => {"results", "statistics"} \subseteq DOMAIN r

----------------------------------------------------------------------------
(* Claims C1 to C5 *)

\* C1: whatever the provider and the extractors do (success, error, a
\* timeout of one URL, of a fetch batch or of a query), auto_search
\* returns a well-formed response and raises nothing, and the response has
\* success = true unless every query failed.
C1_AlwaysAnswers ==
    Done =>
        /\ Returned
        /\ WellFormed(response)
        /\ (\E i \in 1..Len(q_result) : Succeeded(q_result[i])) => response.success

\* C2: when every query of the request fails at the SERP layer, the
\* response has success = false, and for a parallel request query_details
\* has one failure entry per query.
C2_AllFailedIsFailure ==
    (Done /\ \A i \in 1..Len(q_result) : SerpFailed(i)) =>
        /\ Returned
        /\ response.success = FALSE
        /\ Parallel =>
              LET query_details == response.statistics.query_details
              IN /\ Len(query_details) = Len(queries)
                 /\ \A k \in 1..Len(query_details) : ~query_details[k].success

\* C3: in a parallel request with at least one successful query, a query
\* that failed or timed out leaves no result and does not abort the call:
\* success is true, total_queries is the number of parsed queries,
\* query_details has one entry per query with its index and its success
\* flag, and successful_queries counts the entries with success = true.
C3_PartialFailure ==
    (Done /\ Parallel /\ \E i \in 1..Len(q_result) : Succeeded(q_result[i])) =>
        /\ Returned
        /\ response.success = TRUE
        /\ LET stats == response.statistics
               query_details == stats.query_details
           IN /\ stats.total_queries = Len(search_tags)
              /\ Len(query_details) = Len(search_tags)
              /\ \A k \in 1..Len(query_details) :
                    /\ query_details[k].query_index = k - 1
                    /\ query_details[k].query = search_tags[k]
                    /\ query_details[k].success = Succeeded(q_result[k])
                    /\ ~Succeeded(q_result[k]) => RecordsOf(k) = <<>>
              /\ stats.successful_queries =
                    Cardinality({k \in 1..Len(query_details) : query_details[k].success})

\* C3's case: a parallel request has ended with one query successful and
\* with results, and one query cut off by its timeout
C3_Witness ==
    /\ Returned
    /\ Parallel
    /\ \E i, j \in 1..Len(q_result) :
          /\ Succeeded(q_result[i])
          /\ RecordsOf(i) # <<>>
          /\ IsException(q_result[j])
          /\ q_result[j].exception = "TimeoutError"

\* C4: in every successful response, in light and in full mode and for
\* every auto_fetch_limit, results has as many records as the SERP layer
\* returned hits for the successful queries, which is
\* statistics.total_results.
C4_OneRecordPerHit ==
    (Returned /\ response.success) =>
        /\ Len(response.results) = HitsOfSuccessful(1)
        /\ response.statistics.total_results = HitsOfSuccessful(1)

\* C5: in every response results is non-decreasing in (search_index,
\* position), and the positions of the records of one query are exactly
\* 1..n, with no gap and no repeat.
C5_OrderedPositions ==
    (Returned /\ "results" \in DOMAIN response) =>
        LET results == response.results
        IN /\ \A k \in 1..(Len(results) - 1) :
                 \/ SearchIndexOf(results[k]) < SearchIndexOf(results[k + 1])
                 \/ /\ SearchIndexOf(results[k]) = SearchIndexOf(results[k + 1])
                    /\ results[k].position <= results[k + 1].position
           /\ \A i \in 1..Len(queries) :
                 {RecordsOf(i)[k].position : k \in 1..Len(RecordsOf(i))}
                     = 1..Len(RecordsOf(i))

----------------------------------------------------------------------------
(* Claim C6 *)

\* what fetch task j of query i ends with, from the answer on record
ExpectedOutcome(i, j, item) ==
    LET e == CHOOSE e \in answers.ext : e.i = i /\ e.j = j
    IN fetch_outcome(e.result, item)

\* what query i ends with, from the answers and the timeouts on record
ExpectedResult(i, query) ==
    IF answers.timeout[i] = "query" THEN Exc("TimeoutError", "")
    ELSE IF answers.timeout[i] = "batch"
    THEN Exc("AttributeError", "'coroutine' object has no attribute 'done'")
    ELSE LET search_result == search_result_of(query, answers.serp[i])
         IN IF ~search_result.success THEN search_failure(query, search_result)
            ELSE IF mode = "light" THEN light_response(query, search_result.results)
            ELSE LET items == urls_to_fetch_of(search_result.results, auto_fetch_limit)
                 IN full_response(query, search_result.results, items,
                                  [j \in 1..Len(items) |-> ExpectedOutcome(i, j, items[j])],
                                  auto_fetch_limit)

\* the response as a function of the request, the configuration, the
\* answers and the timeouts alone
ExpectedResponse ==
    LET tags == search_tags_of(raw_query)
    IN IF Len(tags) > 1
       THEN parallel_response(raw_query, mode, tags, tags,
                              [i \in 1..Len(tags) |-> ExpectedResult(i, tags[i])])
       ELSE LET result == ExpectedResult(1, IF tags # <<>> THEN tags[1] ELSE raw_query)
            IN IF IsException(result) THEN [raised |-> result]
               ELSE Merge(result, [search_type |-> "single"])

\* C6: what auto_search ends with is a function of the request, of the
\* provider's answers and of the extractor's answer for each URL: the
\* order in which the query tasks and the fetch tasks run and end leaves
\* no trace in the order or the content of results.
C6_Deterministic == Done => response = ExpectedResponse

\* C6's case: a response with fetched content has been assembled from
\* tasks of which one ended before an earlier task of its batch
C6_Witness ==
    /\ Returned
    /\ overtaken
    /\ Len(response.results) >= 2
    /\ \E k \in 1..Len(response.results) : response.results[k].fetch_success

----------------------------------------------------------------------------
(* Claims C7 and C8 *)

\* C7: in light mode no extraction is attempted, every SERP hit is a
\* record with fetch_success = false, fetch_reason "light_mode", the hit's
\* snippet as content and extraction_method snippet_only, and the
\* statistics count no fetch.
C7_LightRecords ==
    (Returned /\ mode = "light" /\ response.success) =>
        /\ ext_calls = {}
        /\ Len(response.results) = HitsOfSuccessful(1)
        /\ \A k \in 1..Len(response.results) :
              LET r == response.results[k]
              IN /\ r.fetch_success = FALSE
                 /\ Get(r, "fetch_reason", "") = "light_mode"
                 /\ r.content = r.snippet
                 /\ Get(r, "extraction_method", "") = "snippet_only"
        /\ IF Parallel THEN response.statistics.total_fetched = 0
           ELSE response.statistics.auto_fetched = 0

\* the URLs of query i handed to the content extractor
ExtractedOf(i) == {c[2] : c \in {d \in ext_calls : d[1] = i}}

\* C8: in full mode exactly the first auto_fetch_limit hits of each query
\* are handed to extraction, and every hit beyond the limit is a record
\* with no extraction attempt, fetch_success = false, fetch_reason
\* "exceeded_auto_fetch_limit", its snippet as content and
\* extraction_method snippet_only, after the fetched records and in SERP
\* order.
C8_FetchLimit ==
    (Returned /\ mode = "full") =>
        \A i \in 1..Len(q_result) :
            Succeeded(q_result[i]) =>
                LET hits == q_hits[i]
                    limit == Min(auto_fetch_limit, Len(hits))
                    records == RecordsOf(i)
                    fetched == Len(records) - (Len(hits) - limit)
                IN /\ ExtractedOf(i) = {hits[k].url : k \in 1..limit}
                   /\ fetched >= 0
                   /\ \A k \in 1..fetched : "fetch_reason" \notin DOMAIN records[k]
                   /\ \A k \in (limit + 1)..Len(hits) :
                         LET r == records[fetched + k - limit]
                         IN /\ r.url = hits[k].url
                            /\ r.position = hits[k].position
                            /\ r.snippet = hits[k].snippet
                            /\ r.fetch_success = FALSE
                            /\ Get(r, "fetch_reason", "") = "exceeded_auto_fetch_limit"
                            /\ r.content = r.snippet
                            /\ Get(r, "extraction_method", "") = "snippet_only"

----------------------------------------------------------------------------
(* The grammar of the specification, for claims C9 and C10 *)

\* whether a text holds a tag
HasTag(text) == \E k \in 1..Len(text) : text[k] \in {OPEN, CLOSE}

\* tagged := "<search>" inner "</search>", the inner text free of tags
IsTagged(text) ==
    /\ Len(text) >= 2
    /\ text[1] = OPEN
    /\ text[Len(text)] = CLOSE
    /\ ~HasTag(SubSeq(text, 2, Len(text) - 1))

\* bare := any text, free of tags
IsBare(text) == ~HasTag(text)

\* a text without the blanks at its ends
Trimmed(text) ==
    LET inked == {k \in 1..Len(text) : text[k] # SPACE}
    IN IF inked = {} THEN <<>>
       ELSE SubSeq(text, CHOOSE k \in inked : \A l \in inked : k <= l,
                         CHOOSE k \in inked : \A l \in inked : k >= l)

\* the parts of a text that its pipes separate, left to right
Segments(text) ==
    LET cuts == {0, Len(text) + 1} \cup {k \in 1..Len(text) : text[k] = PIPE}
        Cut(n) == CHOOSE c \in cuts : Cardinality({d \in cuts : d < c}) = n - 1
    IN [n \in 1..(Cardinality(cuts) - 1) |-> SubSeq(text, Cut(n) + 1, Cut(n + 1) - 1)]

\* the queries of a request by the grammar: the trimmed, non-empty parts
\* of the inner text of a tagged request, the text itself of a bare one
GrammarQueries(text) ==
    IF IsTagged(text)
    THEN LET parts == Segments(SubSeq(text, 2, Len(text) - 1))
         IN SelectSeq([n \in 1..Len(parts) |-> Trimmed(parts[n])], LAMBDA q : q # <<>>)
    ELSE IF Trimmed(text) = <<>> THEN <<>> ELSE <<text>>

\* a request of the grammar
InGrammar == IsTagged(raw_query) \/ IsBare(raw_query)

\* a request that is to be rejected
InvalidRequest ==
    \/ InGrammar /\ GrammarQueries(raw_query) = <<>>
    \/ num_results < 1
    \/ mode \notin {"light", "full"}

\* a request that is to be served
ValidRequest ==
    /\ InGrammar
    /\ GrammarQueries(raw_query) # <<>>
    /\ num_results >= 1
    /\ mode \in {"light", "full"}

----------------------------------------------------------------------------
(* Claims C9 and C10 *)

\* C9: auto_search rejects an invalid request as a whole, with
\* INVALID_REQUEST and with no SERP request sent: a query text that leaves
\* no query after the parse, a num_results below 1, a mode that is neither
\* light nor full.
C9_RejectsInvalid ==
    (InvalidRequest /\ call_pc # "idle") =>
        /\ \A i \in 1..Len(serp_calls) : serp_calls[i] = <<>>
        /\ Returned
        /\ response.success = FALSE
        /\ Get(response, "error", "") = "INVALID_REQUEST"

\* C10: auto_search parses the query text by the grammar.  The inner text
\* of the tag is split at the pipes into trimmed, non-empty queries, left
\* to right; two or more make a parallel search with parallel_queries
\* that list and one SERP search for each; one tagged query, or a bare
\* text, makes a single search with one SERP search, and the SERP client
\* gets the query text without the tags.
C10_Grammar ==
    (ValidRequest /\ call_pc # "idle") =>
        LET parsed == GrammarQueries(raw_query)
        IN /\ Len(serp_calls) = Len(parsed)
           /\ \A i \in 1..Len(serp_calls) :
                 /\ Len(serp_calls[i]) <= 1
                 /\ \A c \in 1..Len(serp_calls[i]) : serp_calls[i][c].q = parsed[i]
                 /\ Done => Len(serp_calls[i]) = 1
           /\ Done =>
                 /\ Returned
                 /\ IF Len(parsed) >= 2
                    THEN /\ response.search_type = "parallel"
                         /\ response.parallel_queries = parsed
                    ELSE /\ response.search_type = "single"
                         /\ "parallel_queries" \notin DOMAIN response

\* C10's case: a tagged request of two queries has been served
C10_Witness ==
    /\ Returned
    /\ ValidRequest
    /\ IsTagged(raw_query)
    /\ Len(GrammarQueries(raw_query)) >= 2
    /\ response.parallel_queries = GrammarQueries(raw_query)
    /\ \A i \in 1..Len(serp_calls) : Len(serp_calls[i]) = 1

----------------------------------------------------------------------------
(* Claim C11 *)

\* C11: for every non-empty list of queries of the grammar (each a
\* non-empty trimmed text that holds no tag), parse_search_queries gives
\* back from format_parallel_search(queries) exactly the queries, for a
\* list of one query as for a longer one.
C11_RoundTrip ==
    (parser.pc = "parsed" /\ \A k \in 1..Len(parser.queries) : ~HasTag(parser.queries[k]))
        => parser.parsed = parser.queries

----------------------------------------------------------------------------
(* Claim C12 *)

\* the fetch tasks (query, task) that are inside the content extractor
ExtractionsInFlight ==
    UNION { { <<i, j>> : j \in {k \in 1..Len(f_pc[i]) : f_pc[i][k] = "extracting"} } :
            i \in 1..Len(f_pc) }

\* C12: at every moment of a call at most max_concurrent_fetch URL
\* extractions are in flight, counted over all the queries of the call,
\* those that went on after their fetch task was cancelled included.
C12_ExtractionsBounded ==
    Cardinality(ExtractionsInFlight) + orphans <= max_concurrent_fetch

\* C12's case: the extractions of two queries together hold every permit
\* of the extractor, and a further fetch task waits for one
C12_Witness ==
    /\ Cardinality(ExtractionsInFlight) = max_concurrent_fetch
    /\ \E p, q \in ExtractionsInFlight : p[1] # q[1]
    /\ ext_waiters # <<>>

----------------------------------------------------------------------------
(* Claim C13 *)

\* the queries that are executing their search_and_fetch
QueriesExecuting == {i \in 1..Len(q_pc) : q_pc[i] \in {"bd_wait", "serp", "fetch"}}

\* the queries that wait at the gate
QueriesAtGate == {i \in 1..Len(q_pc) : q_pc[i] = "gate"}

\* N_Q, from N_Q_max (the extractor's max_concurrent) and the number of queries
GateWidth == Min(max_concurrent_fetch, Len(queries))

\* at most N_Q queries execute, every other unfinished query waits at the
\* gate, and none waits while a permit is free
GateHolds ==
    (call_pc = "running" /\ Parallel) =>
        /\ Cardinality(QueriesExecuting) <= GateWidth
        /\ \A i \in 1..Len(q_pc) : i \in QueriesExecuting \cup QueriesAtGate \/ q_pc[i] = "done"
        /\ QueriesAtGate # {} => Cardinality(QueriesExecuting) = GateWidth

\* a query that waits at the gate does not end in this step: no timeout
\* cuts it off there
NoTimeoutAtGate ==
    \A i \in 1..Len(q_pc) :
        q_pc[i] = "gate" => (Len(q_pc') = Len(q_pc) /\ q_pc'[i] # "done")

\* C13: at every moment of a parallel call at most N_Q = min(N_Q_max, Q)
\* queries execute their search-and-fetch, the remaining queries wait at
\* the gate, and the per-query timeout of a query runs only once the
\* query has passed the gate.
C13_Gate == []GateHolds /\ [][NoTimeoutAtGate]_vars

\* C13's case: a parallel call with more queries than permits, N_Q of them
\* executing and one waiting at the gate
C13_Witness ==
    /\ call_pc = "running"
    /\ Parallel
    /\ Len(queries) > GateWidth
    /\ Cardinality(QueriesExecuting) = GateWidth
    /\ QueriesAtGate # {}

----------------------------------------------------------------------------
(* Claim C14 *)

\* C14: when parallel_timeout cuts the fetch batch of a query,
\* search_and_fetch still returns a successful response for the query: a
\* fetch task that had ended keeps its outcome in its result record, and
\* a task that had not is a failed fetch in its own record.
C14_BatchTimeout ==
    \A i \in 1..Len(q_pc) :
        (q_pc[i] = "done" /\ answers.timeout[i] = "batch") =>
            /\ Succeeded(q_result[i])
            /\ LET cut == answers.cut[i]
                   records == q_result[i].results
               IN /\ Len(records) >= Len(cut)
                  /\ \A j \in 1..Len(cut) :
                        IF cut[j] # Pending
                        THEN records[j] = enhanced_result_of(q_items[i][j], cut[j])
                        ELSE /\ records[j].url = q_items[i][j].url
                             /\ records[j].fetch_success = FALSE
                             /\ "fetch_error" \in DOMAIN records[j]

----------------------------------------------------------------------------
(* Claim C15 *)

\* whether part occurs in text
HasPart(text, part) ==
    \E k \in 0..(Len(text) - Len(part)) : SubSeq(text, k + 1, k + Len(part)) = part

\* the error messages that speak of a timeout
TimeoutMessages == {"Content extraction timeout"}

\* the fetch tasks, of queries that have ended, whose extraction had not
\* ended when single_url_timeout ran out: those the timeout cut off and
\* those that went on after it
UrlTimeouts ==
    {w \in {<<e.i, e.j>> : e \in {o \in answers.ext : o.result = TimedOut}}
            \cup answers.late :
        q_pc[w[1]] = "done"}

\* C15: when the extraction of a URL does not end within
\* single_url_timeout, the record of that URL has is_timeout = true, a
\* fetch_error that speaks of the timeout and a content that holds the
\* snippet of the hit; the other URLs of the batch have the records their
\* own extractions give, and the response has success = true.
C15_UrlTimeout ==
    \A w \in UrlTimeouts :
        /\ Succeeded(q_result[w[1]])
        /\ LET items == q_items[w[1]]
               records == q_result[w[1]].results
               r == records[w[2]]
           IN /\ r.url = items[w[2]].url
              /\ Get(r, "is_timeout", FALSE) = TRUE
              /\ Get(r, "fetch_error", "") \in TimeoutMessages
              /\ r.content # None
              /\ HasPart(r.content, items[w[2]].snippet)
              /\ \A k \in 1..Len(items) :
                    (/\ <<w[1], k>> \notin UrlTimeouts
                     /\ \E o \in answers.ext : o.i = w[1] /\ o.j = k) =>
                        records[k] = enhanced_result_of(items[k],
                                                        ExpectedOutcome(w[1], k, items[k]))
        /\ Done => (Returned /\ response.success = TRUE)

----------------------------------------------------------------------------
(* Claim C16 *)

\* the extractions on record, of queries that have ended, whose extractor
\* call raised an error into its fetch task
RaisedInFetchTask ==
    {e \in answers.ext :
        /\ q_pc[e.i] = "done"
        /\ e.result # TimedOut
        /\ IsException(extract_result_of(e.result, q_items[e.i][e.j]))}

----------------------------------------------------------------------------
(* Claim C17 *)

\* the errors with which an extractor reports a timeout of its own
ExtractorTimeoutMessages ==
    {"Content extraction timeout (60s)", "Request timeout", "Download timeout"}

\* the ways the work of an extractor ends in a timeout: a timeout of the
\* extractor itself, and the timeout of the fetch task around it
TimeoutOutcomes == {"timeout", "cancelled"}

\* extract_content has ended with a failure that speaks of a timeout
TimeoutReturned ==
    /\ extraction.pc \in {"returned", "done"}
    /\ \/ extraction.result = TimedOut
       \/ /\ ~IsException(extraction.result)
          /\ ~extraction.result.success
          /\ Get(extraction.result, "error", "") \in ExtractorTimeoutMessages

\* C17: when the work of an extractor of the chain ends in a timeout, no
\* later extractor is invoked for the URL and the extraction ends at once
\* with a failure that reports the timeout.
C17_TimeoutStopsChain ==
    \A k \in 1..Len(extraction.invoked) :
        extraction.invoked[k].outcome \in TimeoutOutcomes =>
            /\ k = Len(extraction.invoked)
            /\ TimeoutReturned

----------------------------------------------------------------------------
(* Claim C18 *)

\* the dispatch table: the extractors for a content type, in order
DispatchTable(content_type) ==
    IF content_type = "pdf" THEN <<"pdf_parser", "firecrawl", "trafilatura">>
    ELSE <<"trafilatura", "firecrawl">>

\* whether the ContentExtractor has the extractor
HasExtractor(extractor) ==
    \/ extractor = "pdf_parser" /\ extraction.pdf_parser
    \/ extractor = "firecrawl" /\ extraction.firecrawl_client
    \/ extractor = "trafilatura" /\ extraction.trafilatura_client

\* the extractors of the dispatch table that the ContentExtractor has
DispatchChain == SelectSeq(DispatchTable(extraction.content_type), HasExtractor)

\* extract_content has returned or raised, and was not cancelled
ChainEnded == extraction.pc \in {"returned", "done"} /\ extraction.result # TimedOut

\* the extractors invoked are the first ones of the chain, in its order,
\* each after a failure of the one before it and with fallback allowed
FollowsInOrder ==
    LET invoked == extraction.invoked
    IN /\ Len(invoked) <= Len(DispatchChain)
       /\ \A k \in 1..Len(invoked) : invoked[k].extractor = DispatchChain[k]
       /\ \A k \in 1..(Len(invoked) - 1) :
             invoked[k].outcome # "success" /\ extraction.fallback

\* the chain is not left early: its first extractor is invoked, and after
\* a failure that is no timeout, with fallback allowed, the next one
RunsToTheEnd ==
    LET invoked == extraction.invoked
        n == Len(invoked)
    IN /\ DispatchChain # <<>> => n >= 1
       /\ (n >= 1 /\ n < Len(DispatchChain) /\ extraction.fallback) =>
             invoked[n].outcome # "failure"

\* C18: the extractors invoked for one URL follow the dispatch table in
\* order (pdf: PDF parser, hosted crawler, HTML extractor; any other type:
\* HTML extractor, hosted crawler), each invoked only after the one before
\* it failed and with fallback allowed, the next one tried after each
\* failure; with fallback disallowed only the first is invoked.
C18_DispatchOrder == ChainEnded => (FollowsInOrder /\ RunsToTheEnd)

----------------------------------------------------------------------------
(* Claim C19 *)

\* the fetch task has ended after every extractor that extract_content
\* tried had failed
ChainExhausted ==
    /\ extraction.pc = "done"
    /\ extraction.result # TimedOut
    /\ ~IsException(extraction.result)
    /\ ~extraction.result.success

\* the formatted view of the hit of the fetch task
FormattedHit ==
    prepare_serp_content(extraction.item.title, extraction.item.snippet, extraction.item.url)

\* the extraction error a record holds, "" when it holds none
ErrorKept(record) ==
    IF "original_error" \in DOMAIN record THEN record.original_error
    ELSE IF "fetch_error" \in DOMAIN record THEN record.fetch_error
    ELSE IF "error" \in DOMAIN record THEN record.error
    ELSE ""

\* C19: when every extractor tried for a URL has failed and the hit has a
\* title or a snippet, the record of the URL has the formatted hit as its
\* content, fetch_success = true and is_serp_fallback = true, and holds the
\* error of the failed extraction.
C19_SerpFallback ==
    (ChainExhausted /\ (extraction.item.title # <<>> \/ extraction.item.snippet # <<>>)) =>
        /\ extraction.record.content = FormattedHit
        /\ Get(extraction.record, "fetch_success", FALSE) = TRUE
        /\ Get(extraction.record, "is_serp_fallback", FALSE) = TRUE
        /\ ErrorKept(extraction.record) = extraction.result.error

----------------------------------------------------------------------------
(* Claim C20 *)

\* C20: a record with is_serp_fallback = true has a content equal to the
\* formatted view of the title, the snippet and the URL of its own hit,
\* whatever max_content_length and max_content_tokens are.
C20_FallbackContent ==
    (extraction.pc = "done" /\ Get(extraction.record, "is_serp_fallback", FALSE) = TRUE) =>
        extraction.record.content = FormattedHit

----------------------------------------------------------------------------
(* Claim C21 *)

\* the records of the response, none when the response has no results
ResponseRecords ==
    IF Returned /\ "results" \in DOMAIN response
    THEN {response.results[k] : k \in 1..Len(response.results)}
    ELSE {}

\* the snippets of the hits of the query of record r that have its URL
SnippetsOfHit(r) ==
    {Get(q_hits[SearchIndexOf(r) + 1][k], "snippet", <<>>) :
        k \in {h \in 1..Len(q_hits[SearchIndexOf(r) + 1]) :
                  Get(q_hits[SearchIndexOf(r) + 1][h], "url", <<>>) = Get(r, "url", <<>>)}}

\* C21: in every response, a record with fetch_success = false has no
\* content (None) or has exactly the snippet of its hit as content, on
\* every path that leads to such a record; it never holds text that was
\* extracted.
C21_FailedContent ==
    \A r \in ResponseRecords :
        Get(r, "fetch_success", TRUE) = FALSE =>
            \/ Get(r, "content", None) = None
            \/ r.content \in SnippetsOfHit(r)

\* C21's case: a response with a record of a failed extraction that holds
\* the snippet, beside a record of a timed-out or unfetched hit
C21_Witness ==
    \E r \in ResponseRecords :
        /\ Get(r, "fetch_success", TRUE) = FALSE
        /\ "fetch_error" \in DOMAIN r
        /\ r.content # None
        /\ r.content # <<>>
        /\ r.content = r.snippet

----------------------------------------------------------------------------
(* Claim C22 *)

\* C22: for every body and every pair of limits, a result with
\* is_truncated = true has a content_length (the marker counted) of at
\* most max_content_length and estimated_tokens of at most
\* max_content_tokens.
C22_TruncatedWithinLimits ==
    (capping.pc # "new" /\ capping.result.is_truncated) =>
        /\ capping.result.content_length = Len(capping.result.content)
        /\ capping.result.content_length <= max_content_length
        /\ capping.result.estimated_tokens <= max_content_tokens

----------------------------------------------------------------------------
(* Claim C23 *)

\* the body is within both limits
WithinLimits(content) ==
    /\ Len(content) <= max_content_tokens * CharToTokenRatio
    /\ Len(content) <= max_content_length

\* C23: the content cap is idempotent for every body and every pair of
\* limits: a body within both limits comes back unchanged, with no
\* truncation flagged by the cap, and the cap applied to its own output
\* gives the same content again.
C23_CapIdempotent ==
    /\ (capping.pc # "new" /\ WithinLimits(capping.extract_result.content)) =>
          /\ capping.result.content = capping.extract_result.content
          /\ capping.result.is_truncated = capping.extract_result.is_truncated
    /\ capping.pc = "recapped" => capping.again.content = capping.result.content

----------------------------------------------------------------------------
(* Claim C24 *)

\* C24: after three or more extraction failures of one host in a row and
\* no success, every later extraction request for a URL of that host
\* comes back with is_serp_fallback = true, and no extraction request is
\* issued for it.
C24_SkipKnownFailures ==
    \A k \in 1..Len(learning.log) :
        (k > 3 /\ \A j \in 1..(k - 1) : learning.log[j].failed) =>
            /\ ~learning.log[k].issued
            /\ Get(learning.log[k].result, "is_serp_fallback", FALSE) = TRUE

----------------------------------------------------------------------------
(* Claim C25 *)

\* the caller cancelled the call
Cancelled == answers.cancel.cancelled

\* a query task or a fetch task had ended with a result when the caller
\* cancelled the call
ProducedBeforeCancel ==
    /\ Cancelled
    /\ \E i \in 1..Len(answers.cancel.q_result) :
          \/ Succeeded(answers.cancel.q_result[i])
          \/ \E j \in 1..Len(answers.cancel.f_out[i]) :
                answers.cancel.f_out[i][j] # Pending

\* the records a response holds for the results that were complete when
\* the caller cancelled: those of the queries that had ended, and one for
\* each fetch task that had ended
KeptAfterCancel ==
    \A i \in 1..Len(answers.cancel.q_result) :
        LET before == answers.cancel.q_result[i]
            outcomes == answers.cancel.f_out[i]
            records == {response.results[k] : k \in 1..Len(response.results)}
        IN /\ Succeeded(before) =>
                \A k \in 1..Len(before.results) :
                    \E r \in records : r.url = before.results[k].url
                                        /\ r.content = before.results[k].content
           /\ \A j \in 1..Len(outcomes) :
                 outcomes[j] # Pending =>
                    \E r \in records : r = enhanced_result_of(q_items[i][j], outcomes[j])

\* the entries a response holds for what was not complete when the caller
\* cancelled: success = false with the error "cancelled", for a query as
\* for a fetch task
MarkedCancelled ==
    \A i \in 1..Len(answers.cancel.q_result) :
        LET before == answers.cancel.q_result[i]
            outcomes == answers.cancel.f_out[i]
        IN /\ (before = Pending /\ Parallel) =>
                LET detail == response.statistics.query_details[i]
                IN ~detail.success /\ detail.error = "cancelled"
           /\ (before = Pending /\ ~Parallel /\ outcomes = <<>>) =>
                ~response.success /\ Get(response, "error", "") = "cancelled"
           /\ \A j \in 1..Len(outcomes) :
                 outcomes[j] = Pending =>
                    \E k \in 1..Len(response.results) :
                        /\ response.results[k].url = q_items[i][j].url
                        /\ ~response.results[k].fetch_success
                        /\ Get(response.results[k], "fetch_error", "") = "cancelled"

\* C25: when the caller cancels auto_search after at least one result was
\* produced, the call still ends with a response: the results that were
\* complete are in it, and every entry that was not is in it with
\* success = false and the error "cancelled".
C25_CancelKeepsResults ==
    ProducedBeforeCancel => (Returned /\ KeptAfterCancel /\ MarkedCancelled)

----------------------------------------------------------------------------
(* Claim C26 *)

\* the fetch task has ended; a call of auto_search of which it is the only
\* fetch task has nothing else to wait for and returns
FetchTaskEnded == extraction.pc = "done"

\* C26: when auto_search returns, after a timeout or without one, no work
\* started for it is still running: the fetch task has ended and every job
\* that an extractor gave to a worker thread has stopped.
C26_NoWorkOutlives == FetchTaskEnded => extraction.threads = {}

----------------------------------------------------------------------------
(* Claim C27 *)

\* the time query task k has run
RunTime(k) ==
    (IF clock.tasks[k].pc = "done" THEN clock.tasks[k].ended ELSE clock.now)
        - clock.tasks[k].started

\* C27: for a single query as for any number of parallel queries, a call
\* of auto_search takes at most the per-query timeout (60 s light, 120 s
\* full) and 2 s for the teardown, and no query, single or parallel, runs
\* longer than the per-query timeout.
C27_TotalTime ==
    /\ clock.now <= search_timeout_of(mode) + 2
    /\ \A k \in 1..Len(clock.tasks) :
          clock.tasks[k].pc # "gate" => RunTime(k) <= search_timeout_of(mode)

----------------------------------------------------------------------------
(* Claim C28 *)

\* the hits of query i come back as snippet-only records, one per hit and
\* in the order of the hits
SnippetOnly(i) ==
    LET records == q_result[i].results
    IN /\ Len(records) = Len(q_hits[i])
       /\ \A k \in 1..Len(records) :
             /\ records[k].url = Get(q_hits[i][k], "url", <<>>)
             /\ records[k].content = Get(q_hits[i][k], "snippet", <<>>)
             /\ records[k].extraction_method = "snippet_only"
             /\ ~records[k].fetch_success

\* C28: with auto_fetch_limit = 0 in full mode the fetch stage is skipped:
\* no extractor is invoked, the call ends with a response and not with an
\* error, every hit is a snippet-only record, auto_fetched is 0 in the
\* statistics of search_and_fetch, and the response names the mode, full.
C28_NoFetchStage ==
    (mode = "full" /\ auto_fetch_limit = 0) =>
        /\ ext_calls = {}
        /\ \A i \in 1..Len(q_pc) :
              (q_pc[i] = "done" /\ Succeeded(q_result[i])) =>
                  /\ SnippetOnly(i)
                  /\ q_result[i].statistics.auto_fetched = 0
        /\ Done => Returned
        /\ (Returned /\ response.success) => Get(response, "mode", "") = "full"

----------------------------------------------------------------------------
(* Claim C29 *)

\* the extractors whose work gave an empty text
GaveEmpty == {k \in 1..Len(extraction.invoked) : extraction.invoked[k].outcome = "empty"}

\* extract_content has returned the result of the extractor invoked last
ReturnedOf(k) ==
    /\ extraction.pc \in {"returned", "done"}
    /\ k = Len(extraction.invoked)
    /\ extraction.result # TimedOut
    /\ ~IsException(extraction.result)

\* C29: an extraction that gives an empty content is a failure of its
\* extractor, whichever of the chain it is: extract_content does not
\* return it as a success, and no record has fetch_success = true with an
\* empty content unless it is a SERP fallback.
C29_EmptyIsFailure ==
    /\ \A k \in GaveEmpty : ReturnedOf(k) => ~extraction.result.success
    /\ (/\ extraction.pc = "done"
        /\ Get(extraction.record, "fetch_success", FALSE) = TRUE
        /\ extraction.record.content = <<>>) =>
           Get(extraction.record, "is_serp_fallback", FALSE) = TRUE

----------------------------------------------------------------------------
(* Claim C30 *)

\* a poll of the job was answered with a status other than 200 and 202
OtherStatusSeen == polling.other # "none"

\* C30: while a SERP job is polled, an answer with status 200 ends the
\* polling with the decoded body, one with status 202 leads to a wait and
\* then to another poll, and any other status ends the polling at once
\* with an HTTP error: no poll request for the job follows it.  (last is
\* the answer to the latest poll request, "none" while it is out.)
C30_PollStatuses ==
    /\ polling.last = "200" => (polling.pc = "returned" /\ polling.result = PollBody)
    /\ polling.last = "202" =>
           \/ polling.pc \in {"sleep", "top"}
           \/ /\ polling.pc = "raised"
              /\ polling.attempt >= MaxRetries \/ polling.elapsed > PollTimeout * 10
    /\ OtherStatusSeen =>
           /\ polling.pc = "raised"
           /\ IsException(polling.result)
           /\ polling.result.exception = "ClientResponseError"
           /\ ~polling.polled_after_other

----------------------------------------------------------------------------
(* Claim C31 *)

\* the wait of the fixed table after the n-th attempt (n counts from 1), in
\* tenths of a second
ScheduledWait(n) ==
    IF n = 1 THEN 20
    ELSE IF n <= 3 THEN 15
    ELSE IF n <= 6 THEN 20
    ELSE IF n <= 10 THEN 30
    ELSE IF n <= 12 THEN 40
    ELSE 50

\* the loop sleeps after an attempt that was answered with 202 or that ran
\* into the timeout of the poll request
WaitsAfter(answer) == polling.pc = "sleep" /\ polling.last = answer

\* C31: the wait before the next poll depends only on the number of the
\* attempt just made and is the one of the fixed table, after an answer 202
\* and after a poll request that timed out alike.
C31_WaitSchedule ==
    (WaitsAfter("202") \/ WaitsAfter("timeout")) =>
        polling.wait = ScheduledWait(polling.attempt + 1)

----------------------------------------------------------------------------
(* Claim C32 *)

\* _poll_async_result has ended
PollingEnded == polling.pc \in {"returned", "raised"}

\* what search() returns for the job
SearchOutcome == search_after_poll(QueryText(1), polling.result)

\* polling was cut off: it ended with no body, and not because the last
\* poll request was answered with an HTTP error
PollingCutOff == polling.pc = "raised" /\ polling.last # "500"

----------------------------------------------------------------------------
(* Claim C33 *)

\* the normalized SERP results of the query tasks whose search has returned
NormalizedHits ==
    UNION {{q_hits[i][k] : k \in 1..Len(q_hits[i])} : i \in 1..Len(q_hits)}

\* C33: normalization drops every item of the provider's answer that has no
\* link: no normalized SERP result has an empty url, and so no result
\* record of a response has one.
C33_NoEmptyUrl ==
    /\ \A hit \in NormalizedHits : hit.url # <<>>
    /\ (Returned /\ "results" \in DOMAIN response) =>
           \A k \in 1..Len(response.results) : response.results[k].url # <<>>

----------------------------------------------------------------------------
(* Claim C34 *)

\* _build_serp_params has returned
ParamsBuilt == search_params.pc = "built"

\* C34: whatever search options are given, the parameters of the SERP
\* request have hl only if a language option was given and gl only if a
\* country option was given, and they always have brd_json = 1 and num.
C34_LanguageCountry ==
    ParamsBuilt =>
        /\ "hl" \in DOMAIN search_params.params => "language" \in DOMAIN search_params.options
        /\ "gl" \in DOMAIN search_params.params => "country" \in DOMAIN search_params.options
        /\ search_params.params.brd_json = 1
        /\ "num" \in DOMAIN search_params.params

----------------------------------------------------------------------------
(* Claim C35 *)

\* the PDF extraction has ended and none of its worker threads is at work
PdfAllDone == pdf.pc = "done" /\ pdf.threads = {}

\* C35: on every way out of the PDF extraction (success, an answer other
\* than 200, a failure of the parser, a download timeout, a cancellation at
\* any step, the writing of the file in a worker thread included) the
\* temporary file is deleted: once the extraction has ended and its worker
\* threads are done, no temporary PDF file is left.
C35_NoTempFileLeft == PdfAllDone => pdf.files = 0

----------------------------------------------------------------------------
(* Claim C36 *)

\* fetch task j of query i waits for a permit of the extractor that fetch
\* tasks of other queries hold: its own extraction has not begun
WaitsForSlot(i, j) ==
    /\ f_pc[i][j] = "ext_wait"
    /\ \A w \in ExtractionsInFlight : w[1] # i

\* after this step the outcome of fetch task j of query i, or the record
\* that the response of the query has for it, has is_timeout = true
EndsTimedOut(i, j) ==
    \/ /\ j \in DOMAIN f_out'[i]
       /\ Get(f_out'[i][j], "is_timeout", FALSE) = TRUE
    \/ /\ q_pc'[i] = "done"
       /\ Succeeded(q_result'[i])
       /\ j \in DOMAIN q_result'[i].results
       /\ Get(q_result'[i].results[j], "is_timeout", FALSE) = TRUE

\* a fetch task that waits for a slot does not end as timed out
NoTimeoutInWait ==
    \A i \in DOMAIN f_pc : \A j \in DOMAIN f_pc[i] :
        WaitsForSlot(i, j) => ~EndsTimedOut(i, j)

\* C36: a URL is reported with is_timeout = true only if its own
\* extraction ran for single_url_timeout: the clock of the per-URL timeout
\* does not run while the fetch task only waits for an extraction slot that
\* fetch tasks of other queries hold.
C36_TimeoutOnlyWhileExtracting == [][NoTimeoutInWait]_vars

----------------------------------------------------------------------------
(* Claim C37 *)

\* the steps of extract_content at which an extractor is at work
ExtractorSteps == {"pdf_parser", "firecrawl", "trafilatura"}

\* the timeout of the fetch task has cancelled the extraction: the
\* cancellation ended an extractor, or it was swallowed
TimeoutHasCancelled ==
    \/ extraction.late
    \/ \E k \in 1..Len(extraction.invoked) :
          extraction.invoked[k].outcome \in {"cancelled", "raised"}

\* a step in which no cancellation is swallowed and in which an extraction
\* that was cancelled neither ends the work of an extractor nor begins
\* that of another
StopsWhenCancelled ==
    /\ ~extraction'.late
    /\ TimeoutHasCancelled =>
           /\ extraction'.invoked = extraction.invoked
           /\ extraction'.pc \notin ExtractorSteps

\* C37: once a timeout has cancelled a fetch task, the task invokes no
\* further extractor and sends no further HTTP request, at whichever step
\* of the extraction the cancellation arrives, and no exception handler
\* swallows the cancellation.
C37_CancelStopsExtraction == [][StopsWhenCancelled]_vars

----------------------------------------------------------------------------
(* C38: the call ends and its gates are whole again *)

\* every gate that outlives a task has all its permits and nobody waits
\* for it: the query gate of the call, the gate of the SERP client and the
\* gate of the content extractor
AllPermitsBack ==
    /\ gate_sem = IF IsParallel(State)
                  THEN max_concurrent_of(max_concurrent_fetch, search_tags)
                  ELSE 0
    /\ bd_sem = BrightDataMaxConcurrent
    /\ ext_sem = max_concurrent_fetch
    /\ ext_waiters = <<>>

\* no permit is lost or made while the call runs, and a task waits for a
\* gate only while that gate has no permit left: whoever waits, waits for
\* a task that holds a permit and awaits an HTTP answer
PermitsConserved ==
    /\ call_pc # "idle" =>
          /\ ext_sem + Cardinality(ExtractionsInFlight) + orphans = max_concurrent_fetch
          /\ bd_sem + Cardinality({i \in 1..Len(q_pc) : q_pc[i] = "serp"})
                = BrightDataMaxConcurrent
    /\ ext_waiters # <<>> => ext_sem = 0
    /\ (\E i \in 1..Len(q_pc) : q_pc[i] = "bd_wait") => bd_sem = 0
    /\ (\E i \in 1..Len(q_pc) : q_pc[i] = "gate") => gate_sem = 0

\* the call has ended while an extraction it started still runs
EndedWithOrphan == Done /\ orphans > 0

\* C38: every call of auto_search ends, whatever the interleaving of its
\* query and fetch tasks, and when it has ended every gate has all its
\* permits, after success, failure, timeout and cancellation alike.  That
\* the call ends is a matter of SpecLive's fairness; this is what must
\* hold of the state it ends in
C38_AllPermitsAtReturn == Done => AllPermitsBack

\* the permits are all back when the call has ended and no extraction
\* has outlived it
C38_PermitsBackButOrphans == (Done /\ orphans = 0) => AllPermitsBack

----------------------------------------------------------------------------
(* C39: the statistics agree with the records *)

\* the number of records that hold flag
RecordsWith(records, flag) ==
    Cardinality({k \in 1..Len(records) : Get(records[k], flag, FALSE)})

\* the counters of one full-mode result of search_and_fetch agree with
\* its records and are ordered
StatisticsAgree(result) ==
    LET stats == result.statistics
    IN /\ stats.fetch_success = RecordsWith(result.results, "fetch_success")
       /\ stats.pdf_count = RecordsWith(result.results, "is_pdf")
       /\ stats.pdf_count <= stats.fetch_success
       /\ stats.fetch_success <= stats.auto_fetched
       /\ stats.auto_fetched <= Min(auto_fetch_limit, stats.total_results)

RECURSIVE DetailSum(_, _, _)
\* the sum of one counter over the details of the successful queries,
\* from detail k on
DetailSum(details, counter, k) ==
    IF k > Len(details) THEN 0
    ELSE (IF details[k].success THEN details[k].statistics[counter] ELSE 0)
         + DetailSum(details, counter, k + 1)

\* the totals of a parallel response are the sums of the counters of
\* the successful queries, and agree with the records of the response
TotalsAgree(resp) ==
    LET stats == resp.statistics
        details == stats.query_details
    IN /\ stats.total_results = DetailSum(details, "total_results", 1)
       /\ stats.total_fetched = DetailSum(details, "auto_fetched", 1)
       /\ stats.total_fetch_success = DetailSum(details, "fetch_success", 1)
       /\ stats.total_pdf_count = DetailSum(details, "pdf_count", 1)
       /\ stats.total_fetch_success = RecordsWith(resp.results, "fetch_success")
       /\ stats.total_pdf_count = RecordsWith(resp.results, "is_pdf")

\* the query tasks that have ended with a successful full-mode result
FullResults == {i \in 1..Len(q_result) : mode = "full" /\ Succeeded(q_result[i])}

\* C39: in every successful full-mode response the fetch-success counter
\* is the number of records with fetch_success, the PDF counter is the
\* number of records with is_pdf, pdf_count <= fetch_success <=
\* auto_fetched <= min(auto_fetch_limit, total_results), and each total
\* of a parallel response is the sum of that counter over the successful
\* queries
C39_StatisticsAgree ==
    /\ \A i \in FullResults : StatisticsAgree(q_result[i])
    /\ (Returned /\ mode = "full" /\ ~IsParallel(State) /\ response.success)
          => StatisticsAgree(response)
    /\ (Returned /\ mode = "full" /\ IsParallel(State)) => TotalsAgree(response)

\* C39's case: a parallel full-mode response of two successful queries
\* with a PDF and a failed fetch among its records
C39_Witness ==
    /\ Returned /\ mode = "full" /\ IsParallel(State)
    /\ response.statistics.successful_queries >= 2
    /\ response.statistics.total_pdf_count >= 1
    /\ response.statistics.total_fetched > response.statistics.total_fetch_success

====
